---- MODULE Spec2Model ----
(***************************************************************************)
(* A model of lalcheck's libadalang frontend for the Basic IR             *)
(* (lalcheck/irs/basic/frontends/lal.py): the lowering engine _gen_ir,    *)
(* the constant expression evaluator ConstExprEvaluator and the           *)
(* universal type normalizer ConvertUniversalTypes.                       *)
(*                                                                         *)
(* IR nodes live in a heap (a sequence of records, a node's identity is   *)
(* its index), because the code shares nodes between statements, mutates  *)
(* them in place and memoizes evaluation by node identity.                *)
(***************************************************************************)
EXTENDS Integers, Sequences, FiniteSets, TLC

VARIABLES
    unit,    \* the input: the subprogram bodies of the parsed unit (AST values)
    pc,      \* position of extract_programs / of the evaluator's client
    heap,    \* the IR nodes allocated so far
    progs,   \* the lowered programs: each a sequence of statement node ids
    cache,   \* ConstExprEvaluator.visit's memo table: node id -> value
    calls,   \* number of operator rules (BinOps / UnOps entries) applied so far
    oids,    \* number of Range objects created so far
    last,    \* what the last call of ConstExprEvaluator.eval did
    fault    \* the exception that ended extract_programs, "none" if none

vars == <<unit, pc, heap, progs, cache, calls, oids, last, fault>>

(***************************************************************************)
(* Bounds of the model.                                                    *)
(***************************************************************************)
\* Integer literals of the evaluated expressions range over 0 .. MaxInt.
MaxInt == 1
\* The number of calls a client makes to eval on one expression tree.
MaxEvals == 3
\* The number of times the normalizer runs over one program.
MaxRuns == 2

(***************************************************************************)
(* Values of the evaluator: Python ints, Python strs (the Ada boolean and *)
(* enumeration literals), and Range objects.  A str is a sequence of      *)
(* atoms so that + can concatenate; a Range carries its object identity,  *)
(* because Range defines no __eq__ and == on it is identity.              *)
(***************************************************************************)
IntV(i) == [t |-> "int", i |-> i]
StrV(s) == [t |-> "str", s |-> s]
RangeV(first, last_, oid) == [t |-> "Range", first |-> first, last |-> last_, oid |-> oid]
NoVal == [t |-> "none"]

ADA_TRUE == StrV(<<"True">>)
ADA_FALSE == StrV(<<"False">>)

to_bool(x) == x = ADA_TRUE

from_bool(x) == IF x THEN ADA_TRUE ELSE ADA_FALSE

\* Python 2 ordering of the atoms of a str: by their characters.
AtomRank(a) == CASE a = "False" -> 0 [] a = "True" -> 1 [] OTHER -> 2

RECURSIVE SeqLess(_, _)
SeqLess(a, b) ==
    IF b = <<>> THEN FALSE
    ELSE IF a = <<>> THEN TRUE
    ELSE IF AtomRank(Head(a)) # AtomRank(Head(b)) THEN AtomRank(Head(a)) < AtomRank(Head(b))
    ELSE SeqLess(Tail(a), Tail(b))

\* Python 2's default ordering between values of different types: numbers
\* are smaller than anything else, other objects order by type name
\* ("Range" < "str"); two Range objects order by address.
TypeRank(x) == CASE x.t = "int" -> 0 [] x.t = "Range" -> 1 [] OTHER -> 2

PyLess(x, y) ==
    IF x.t = "int" /\ y.t = "int" THEN x.i < y.i
    ELSE IF x.t = "str" /\ y.t = "str" THEN SeqLess(x.s, y.s)
    ELSE IF x.t = "Range" /\ y.t = "Range" THEN x.oid < y.oid
    ELSE TypeRank(x) < TypeRank(y)

Ok(v) == [val |-> v, exc |-> "none"]
Raise(e) == [val |-> NoVal, exc |-> e]

BinOpSyms == {"AND", "OR", "NEQ", "EQ", "LT", "LE", "GE", "GT", "DOT_DOT", "PLUS", "MINUS"}
UnOpSyms == {"NOT", "NEG", "GET_FIRST", "GET_LAST"}

\* The lambdas of the BinOps table.
op_AND(x, y) == Ok(from_bool(to_bool(x) /\ to_bool(y)))
op_OR(x, y) == Ok(from_bool(to_bool(x) \/ to_bool(y)))
op_NEQ(x, y) == Ok(from_bool(x # y))
op_EQ(x, y) == Ok(from_bool(x = y))
op_LT(x, y) == Ok(from_bool(PyLess(x, y)))
op_LE(x, y) == Ok(from_bool(PyLess(x, y) \/ x = y))
op_GE(x, y) == Ok(from_bool(PyLess(y, x) \/ x = y))
op_GT(x, y) == Ok(from_bool(PyLess(y, x)))
op_DOT_DOT(x, y, oid) == Ok(RangeV(x, y, oid))
op_PLUS(x, y) ==
    IF x.t = "int" /\ y.t = "int" THEN Ok(IntV(x.i + y.i))
    ELSE IF x.t = "str" /\ y.t = "str" THEN Ok(StrV(x.s \o y.s))
    ELSE Raise("TypeError")
op_MINUS_swapped(x, y) ==
    IF x.t = "int" /\ y.t = "int" THEN Ok(IntV(y.i - x.i))
    ELSE Raise("TypeError")
op_MINUS(x, y) ==
    IF x.t = "int" /\ y.t = "int" THEN Ok(IntV(x.i - y.i))
    ELSE Raise("TypeError")

\* BinOps[sym](x, y); DOT_DOT creates the Range object `oid`.
BinOps(sym, x, y, oid) ==
    CASE sym = "AND" -> op_AND(x, y)
      [] sym = "OR" -> op_OR(x, y)
      [] sym = "NEQ" -> op_NEQ(x, y)
      [] sym = "EQ" -> op_EQ(x, y)
      [] sym = "LT" -> op_LT(x, y)
      [] sym = "LE" -> op_LE(x, y)
      [] sym = "GE" -> op_GE(x, y)
      [] sym = "GT" -> op_GT(x, y)
      [] sym = "DOT_DOT" -> op_DOT_DOT(x, y, oid)
      [] sym = "PLUS" -> op_PLUS(x, y)
      [] sym = "MINUS" -> op_MINUS(x, y)

\* The lambdas of the UnOps table.
op_NOT(x) == Ok(from_bool(~to_bool(x)))
op_NEG(x) == IF x.t = "int" THEN Ok(IntV(0 - x.i)) ELSE Raise("TypeError")
op_GET_FIRST(x) == IF x.t = "Range" THEN Ok(x.first) ELSE Raise("AttributeError")
op_GET_LAST(x) == IF x.t = "Range" THEN Ok(x.last) ELSE Raise("AttributeError")

UnOps(sym, x) ==
    CASE sym = "NOT" -> op_NOT(x)
      [] sym = "NEG" -> op_NEG(x)
      [] sym = "GET_FIRST" -> op_GET_FIRST(x)
      [] sym = "GET_LAST" -> op_GET_LAST(x)

(***************************************************************************)
(* IR nodes (lalcheck.irs.basic.tree), as the frontend constructs them.    *)
(***************************************************************************)
Lit(val, type_hint) == [k |-> "Lit", val |-> val, type_hint |-> type_hint]
Identifier(var, type_hint) == [k |-> "Identifier", var |-> var, type_hint |-> type_hint]
BinExpr(lhs, bin_op, rhs, type_hint) ==
    [k |-> "BinExpr", lhs |-> lhs, bin_op |-> bin_op, rhs |-> rhs, type_hint |-> type_hint]
UnExpr(un_op, expr, type_hint) ==
    [k |-> "UnExpr", un_op |-> un_op, expr |-> expr, type_hint |-> type_hint]

(***************************************************************************)
(* ConstExprEvaluator.  `es` is the evaluator's state [cache, calls,      *)
(* oids]; every operator returns the new state, the value and the         *)
(* exception raised ("none" if none).                                     *)
(***************************************************************************)
EvRes(es, val, exc) == [es |-> es, val |-> val, exc |-> exc]

\* The tree below node n, read structurally (node identities forgotten).
RECURSIVE StructOf(_, _)
StructOf(h, n) ==
    CASE h[n].k = "BinExpr" ->
            [h[n] EXCEPT !.lhs = StructOf(h, h[n].lhs), !.rhs = StructOf(h, h[n].rhs)]
      [] h[n].k = "UnExpr" -> [h[n] EXCEPT !.expr = StructOf(h, h[n].expr)]
      [] OTHER -> h[n]

RECURSIVE visit(_, _, _)
RECURSIVE visit_binexpr(_, _, _)
RECURSIVE visit_unexpr(_, _, _)

visit_ident(h, es, n) == EvRes(es, NoVal, "NotConstExprError")

visit_lit(h, es, n) == EvRes(es, h[n].val, "none")

visit_binexpr(h, es, n) ==
    IF h[n].bin_op \notin BinOpSyms THEN EvRes(es, NoVal, "NotConstExprError")
    ELSE LET l == visit(h, es, h[n].lhs) IN
         IF l.exc # "none" THEN l
         ELSE LET r == visit(h, l.es, h[n].rhs) IN
              IF r.exc # "none" THEN r
              ELSE LET isRange == h[n].bin_op = "DOT_DOT"
                       es1 == [r.es EXCEPT !.calls = @ + 1,
                                           !.oids = IF isRange THEN @ + 1 ELSE @]
                       a == BinOps(h[n].bin_op, l.val, r.val, es1.oids)
                   IN EvRes(es1, a.val, a.exc)

visit_unexpr(h, es, n) ==
    IF h[n].un_op \notin UnOpSyms THEN EvRes(es, NoVal, "NotConstExprError")
    ELSE LET x == visit(h, es, h[n].expr) IN
         IF x.exc # "none" THEN x
         ELSE LET a == UnOps(h[n].un_op, x.val)
              IN EvRes([x.es EXCEPT !.calls = @ + 1], a.val, a.exc)

\* node.visit(evaluator): the dispatch of tree._visitable.
enter_visitor(h, es, n) ==
    CASE h[n].k = "Identifier" -> visit_ident(h, es, n)
      [] h[n].k = "Lit" -> visit_lit(h, es, n)
      [] h[n].k = "BinExpr" -> visit_binexpr(h, es, n)
      [] h[n].k = "UnExpr" -> visit_unexpr(h, es, n)

\* funcy's memoize keys on the arguments (self, expr); a node hashes and
\* compares by identity.  A call that raises stores nothing.
visit_by_structure(h, es, n) ==
    LET same == {m \in DOMAIN es.cache : StructOf(h, m) = StructOf(h, n)} IN
    IF same # {} THEN EvRes(es, es.cache[CHOOSE m \in same : TRUE], "none")
    ELSE LET r == enter_visitor(h, es, n) IN
         IF r.exc # "none" THEN r
         ELSE EvRes([r.es EXCEPT !.cache = (n :> r.val) @@ @], r.val, "none")
visit(h, es, n) ==
    IF n \in DOMAIN es.cache THEN EvRes(es, es.cache[n], "none")
    ELSE LET r == enter_visitor(h, es, n) IN
         IF r.exc # "none" THEN r
         ELSE EvRes([r.es EXCEPT !.cache = (n :> r.val) @@ @], r.val, "none")

eval(h, es, n) ==
    LET r == visit(h, es, n) IN
    IF r.exc = "none" /\ r.val = NoVal THEN EvRes(r.es, NoVal, "NotImplementedError")
    ELSE r

(***************************************************************************)
(* Statement nodes and variables of the IR, as the frontend constructs    *)
(* them.  The frontend passes SplitStmt one list of branches.             *)
(***************************************************************************)
Variable(name, type_hint, purpose) ==
    [k |-> "Variable", name |-> name, type_hint |-> type_hint, purpose |-> purpose]
AssignStmt(id, expr) == [k |-> "AssignStmt", id |-> id, expr |-> expr]
SplitStmt(branches) == [k |-> "SplitStmt", branches |-> branches]
LoopStmt(stmts) == [k |-> "LoopStmt", stmts |-> stmts]
ReadStmt(id) == [k |-> "ReadStmt", id |-> id]
AssumeStmt(expr, purpose) == [k |-> "AssumeStmt", expr |-> expr, purpose |-> purpose]
LabelStmt(name) == [k |-> "LabelStmt", name |-> name]
GotoStmt(label) == [k |-> "GotoStmt", label |-> label]

NoPurpose == [k |-> "None"]
SyntheticVariable == [k |-> "SyntheticVariable"]
DerefCheck(expr) == [k |-> "DerefCheck", expr |-> expr]

\* lits.TRUE, lits.FALSE, lits.NULL
TRUE_LIT == ADA_TRUE
FALSE_LIT == ADA_FALSE
NULL_LIT == StrV(<<"null">>)

\* The standard types of the extraction context's evaluator.
bool_type == "Boolean"
int_type == "Integer"
universal_int == "universal_int"
universal_real == "universal_real"

(***************************************************************************)
(* The libadalang AST, as far as the frontend queries it.  `type` is      *)
(* p_expression_type, `nid` the identity of a loop or declaration node.   *)
(***************************************************************************)
None == [k |-> "None"]
A_IntLiteral(tok, type) == [k |-> "IntLiteral", tok |-> tok, type |-> type]
A_NullLiteral(type) == [k |-> "NullLiteral", type |-> type]
A_ObjectRef(decl, text, type) ==
    [k |-> "Identifier", ref |-> "ObjectDecl", decl |-> decl, text |-> text, type |-> type]
A_EnumRef(text, type) ==
    [k |-> "Identifier", ref |-> "EnumLiteralDecl", text |-> text, type |-> type]
A_NumberRef(expr) == [k |-> "Identifier", ref |-> "NumberDecl", expr |-> expr]
A_TypeRef(def, range) ==
    [k |-> "Identifier", ref |-> "TypeDecl", def |-> def, range |-> range]
A_BinOp(op, left, right, type) ==
    [k |-> "BinOp", op |-> op, left |-> left, right |-> right, type |-> type]
A_UnOp(op, expr, type) == [k |-> "UnOp", op |-> op, expr |-> expr, type |-> type]
A_IfExpr(cond, then_expr, else_expr, type) ==
    [k |-> "IfExpr", cond |-> cond, then_expr |-> then_expr, else_expr |-> else_expr,
     type |-> type]
A_ParenExpr(expr) == [k |-> "ParenExpr", expr |-> expr]
A_ExplicitDeref(prefix, type) == [k |-> "ExplicitDeref", prefix |-> prefix, type |-> type]
A_AttributeRef(prefix, attribute, type) ==
    [k |-> "AttributeRef", prefix |-> prefix, attribute |-> attribute, type |-> type]
A_Others == [k |-> "OthersDesignator"]

A_AssignStmt(dest, expr) == [k |-> "AssignStmt", dest |-> dest, expr |-> expr]
A_IfStmt(cond, then_stmts, alternatives, else_stmts) ==
    [k |-> "IfStmt", cond |-> cond, then_stmts |-> then_stmts,
     alternatives |-> alternatives, else_stmts |-> else_stmts]
A_CaseAlt(choices, stmts) == [choices |-> choices, stmts |-> stmts]
A_CaseStmt(expr, alts) == [k |-> "CaseStmt", expr |-> expr, alts |-> alts]
A_LoopStmt(nid, stmts) == [k |-> "LoopStmt", nid |-> nid, stmts |-> stmts]
A_WhileLoopStmt(nid, cond, stmts) ==
    [k |-> "WhileLoopStmt", nid |-> nid, cond |-> cond, stmts |-> stmts]
A_ForLoopStmt(nid, stmts) == [k |-> "ForLoopStmt", nid |-> nid, stmts |-> stmts]
A_Label(decl) == [k |-> "Label", decl |-> decl]
A_GotoStmt(decl) == [k |-> "GotoStmt", decl |-> decl]
A_NamedStmt(stmt) == [k |-> "NamedStmt", stmt |-> stmt]
A_ExitStmt(loop_name, condition) ==
    [k |-> "ExitStmt", loop_name |-> loop_name, condition |-> condition]
A_ExceptionHandler(stmts) == [k |-> "ExceptionHandler", stmts |-> stmts]
A_NullStmt == [k |-> "NullStmt"]
\* The name of a loop in an exit statement: `loop` is
\* p_referenced_decl.parent.f_stmt, the loop statement that carries the name.
A_LoopName(loop) == [k |-> "Identifier", ref |-> "NamedStmtDecl", loop |-> loop]

A_TypeDecl == [k |-> "TypeDecl"]
A_NumberDecl(expr) == [k |-> "NumberDecl", expr |-> expr]
A_ObjectDecl(nid, ids, type, default_expr) ==
    [k |-> "ObjectDecl", nid |-> nid, ids |-> ids, type |-> type,
     default_expr |-> default_expr]
\* A subprogram body: `labels` is subp.findall(lal.LabelDecl).
A_SubpBody(labels, decls, stmts) ==
    [k |-> "SubpBody", labels |-> labels, decls |-> decls, stmts |-> stmts]

\* _lal_op_type_2_symbol and _attr_2_unop
lal_op_type_2_symbol ==
    [x \in {<<"OpLt", 2>>, <<"OpLte", 2>>, <<"OpEq", 2>>, <<"OpNeq", 2>>, <<"OpGte", 2>>,
            <<"OpGt", 2>>, <<"OpAnd", 2>>, <<"OpOr", 2>>, <<"OpPlus", 2>>, <<"OpMinus", 2>>,
            <<"OpDoubleDot", 2>>, <<"OpMinus", 1>>, <<"OpNot", 1>>} |->
        CASE x = <<"OpLt", 2>> -> "LT"
          [] x = <<"OpLte", 2>> -> "LE"
          [] x = <<"OpEq", 2>> -> "EQ"
          [] x = <<"OpNeq", 2>> -> "NEQ"
          [] x = <<"OpGte", 2>> -> "GE"
          [] x = <<"OpGt", 2>> -> "GT"
          [] x = <<"OpAnd", 2>> -> "AND"
          [] x = <<"OpOr", 2>> -> "OR"
          [] x = <<"OpPlus", 2>> -> "PLUS"
          [] x = <<"OpMinus", 2>> -> "MINUS"
          [] x = <<"OpDoubleDot", 2>> -> "DOT_DOT"
          [] x = <<"OpMinus", 1>> -> "NEG"
          [] x = <<"OpNot", 1>> -> "NOT"]

attr_2_unop ==
    [a \in {"Access", "First", "Last"} |->
        CASE a = "Access" -> "ADDRESS" [] a = "First" -> "GET_FIRST" [] a = "Last" -> "GET_LAST"]

(***************************************************************************)
(* _gen_ir.  `st` is the state of one lowering call: the heap, the        *)
(* evaluator's state es, var_decls, tmp_vars, labels, loop_stack, and the *)
(* exception that is propagating ("none" if none).  A transform of an     *)
(* expression returns [st, pre, e]: the pre-statements and the id of the  *)
(* expression node; a transform of statements returns [st, out].          *)
(***************************************************************************)
ER(st, pre, e) == [st |-> st, pre |-> pre, e |-> e]
SR(st, out) == [st |-> st, out |-> out]
Throw(st, e) == IF st.exc # "none" THEN st ELSE [st EXCEPT !.exc = e]
Alloc(st, node) == [st EXCEPT !.heap = Append(@, node)]
New(st) == Len(st.heap)

\* KeyCounter.get_incr: the count of `name` so far, which it then increments.
get_incr(tmp_vars, name) == IF name \in DOMAIN tmp_vars THEN tmp_vars[name] ELSE 0

\* "{}{}".format(name, tmp_vars.get_incr(name)): the name is the pair.
fresh_name(st, name) ==
    LET c == get_incr(st.tmp_vars, name) IN
    [st |-> [st EXCEPT !.tmp_vars = (name :> c + 1) @@ @], name |-> <<name, c>>]

RECURSIVE transform_expr(_, _)
RECURSIVE transform_stmt(_, _)
RECURSIVE transform_stmts(_, _)

\* Below, CHOOSE out \in {e : x \in {v}} : TRUE is e with x bound to the
\* value of v, which is computed once: the result of a nested transform.

gen_split_stmt_dup_pre(st, cond, then_stmts, else_stmts) ==
    CHOOSE out \in {
        IF c.st.exc # "none" THEN SR(c.st, <<>>)
        ELSE LET s1 == Alloc(c.st, UnExpr("NOT", c.e, c.st.heap[c.e].type_hint))
                 not_cond == New(s1)
                 s2 == Alloc(s1, AssumeStmt(c.e, NoPurpose))
                 assume_cond == New(s2)
                 s3 == Alloc(s2, AssumeStmt(not_cond, NoPurpose))
                 assume_not_cond == New(s3)
                 s4 == Alloc(s3, SplitStmt(<< c.pre \o <<assume_cond>> \o then_stmts,
                                              c.pre \o <<assume_not_cond>> \o else_stmts >>))
             IN SR(s4, <<New(s4)>>)
        : c \in {transform_expr(st, cond)} } : TRUE
gen_split_stmt(st, cond, then_stmts, else_stmts) ==
    CHOOSE out \in {
        IF c.st.exc # "none" THEN SR(c.st, <<>>)
        ELSE LET s1 == Alloc(c.st, UnExpr("NOT", c.e, c.st.heap[c.e].type_hint))
                 not_cond == New(s1)
                 s2 == Alloc(s1, AssumeStmt(c.e, NoPurpose))
                 assume_cond == New(s2)
                 s3 == Alloc(s2, AssumeStmt(not_cond, NoPurpose))
                 assume_not_cond == New(s3)
                 s4 == Alloc(s3, SplitStmt(<< <<assume_cond>> \o then_stmts,
                                              <<assume_not_cond>> \o else_stmts >>))
             IN SR(s4, c.pre \o <<New(s4)>>)
        : c \in {transform_expr(st, cond)} } : TRUE

binexpr_builder(st, op, type_hint, lhs, rhs) == Alloc(st, BinExpr(lhs, op, rhs, type_hint))

\* reduce(binexpr_builder(OR, bool), conditions), conditions not empty.
RECURSIVE reduce_or(_, _, _)
reduce_or(st, acc, conditions) ==
    IF conditions = <<>> THEN [st |-> st, e |-> acc]
    ELSE LET s1 == binexpr_builder(st, "OR", bool_type, acc, Head(conditions))
         IN reduce_or(s1, New(s1), Tail(conditions))

gen_lit(st, value) ==
    IF value.t = "int" THEN Alloc(st, Lit(value, int_type))
    ELSE Throw(st, "NotImplementedError")

gen_single_or(st, expr, value) ==
    IF value.t = "int" THEN
        LET s1 == gen_lit(st, value)
        IN Alloc(s1, BinExpr(expr, "EQ", New(s1), bool_type))
    ELSE IF value.t = "Range" /\ value.first.t = "int" /\ value.last.t = "int" THEN
        LET s1 == gen_lit(st, value.first)
            s2 == Alloc(s1, BinExpr(expr, "GE", New(s1), bool_type))
            s3 == gen_lit(s2, value.last)
            s4 == Alloc(s3, BinExpr(expr, "LE", New(s3), bool_type))
        IN Alloc(s4, BinExpr(New(s2), "OR", New(s4), bool_type))
    ELSE Throw(st, "NotImplementedError")
gen_single(st, expr, value) ==
    IF value.t = "int" THEN
        LET s1 == gen_lit(st, value)
        IN Alloc(s1, BinExpr(expr, "EQ", New(s1), bool_type))
    ELSE IF value.t = "Range" /\ value.first.t = "int" /\ value.last.t = "int" THEN
        LET s1 == gen_lit(st, value.first)
            s2 == Alloc(s1, BinExpr(expr, "GE", New(s1), bool_type))
            s3 == gen_lit(s2, value.last)
            s4 == Alloc(s3, BinExpr(expr, "LE", New(s3), bool_type))
        IN Alloc(s4, BinExpr(New(s2), "AND", New(s4), bool_type))
    ELSE Throw(st, "NotImplementedError")

\* [gen_single(value) for value in values]
RECURSIVE gen_singles(_, _, _)
gen_singles(st, expr, values) ==
    IF values = <<>> \/ st.exc # "none" THEN [st |-> st, conds |-> <<>>]
    ELSE CHOOSE out \in {
            CHOOSE out2 \in {
                [st |-> rest.st, conds |-> <<New(s1)>> \o rest.conds]
                : rest \in {gen_singles(s1, expr, Tail(values))} } : TRUE
            : s1 \in {gen_single(st, expr, Head(values))} } : TRUE

gen_case_condition(st, expr, values) ==
    CHOOSE out \in {
        IF c.st.exc # "none" THEN [st |-> c.st, e |-> 0]
        ELSE IF Len(c.conds) > 1 THEN reduce_or(c.st, Head(c.conds), Tail(c.conds))
        ELSE IF Len(c.conds) = 1 THEN [st |-> c.st, e |-> c.conds[1]]
        ELSE [st |-> Throw(c.st, "IndexError"), e |-> 0]
        : c \in {gen_singles(st, expr, values)} } : TRUE

transform_operator(st, lal_op, arity) ==
    IF <<lal_op, arity>> \in DOMAIN lal_op_type_2_symbol
    THEN [st |-> st, op |-> lal_op_type_2_symbol[<<lal_op, arity>>]]
    ELSE [st |-> Throw(st, "KeyError"), op |-> "none"]

\* The variable `res` of a short-circuit operator and its two assignments.
short_circuit_res(st, bool_hint) ==
    LET f == fresh_name(st, "tmp")
        s1 == Alloc(f.st, Variable(f.name, bool_hint, SyntheticVariable))
        s2 == Alloc(s1, Identifier(New(s1), bool_hint))
        s3 == Alloc(s2, Lit(TRUE_LIT, bool_hint))
        s4 == Alloc(s3, AssignStmt(New(s2), New(s3)))
        s5 == Alloc(s4, Lit(FALSE_LIT, bool_hint))
        s6 == Alloc(s5, AssignStmt(New(s2), New(s5)))
    IN [st |-> s6, res |-> New(s2), res_eq_true |-> New(s4), res_eq_false |-> New(s6)]

transform_short_circuit_ops_swapped(st, bin_expr) ==
    CHOOSE out \in {
        CHOOSE out2 \in {
            CHOOSE out3 \in { ER(res_stmts.st, res_stmts.out, r.res)
                : res_stmts \in {
                    IF bin_expr.op = "OpAndThen"
                    THEN gen_split_stmt(inner.st, bin_expr.left, <<r.res_eq_true>>, inner.out)
                    ELSE gen_split_stmt(inner.st, bin_expr.left, inner.out, <<r.res_eq_false>>)
                  } } : TRUE
            : inner \in {gen_split_stmt(r.st, bin_expr.right,
                                        <<r.res_eq_true>>, <<r.res_eq_false>>)} } : TRUE
        : r \in {short_circuit_res(st, bin_expr.type)} } : TRUE
transform_short_circuit_ops(st, bin_expr) ==
    CHOOSE out \in {
        CHOOSE out2 \in {
            CHOOSE out3 \in { ER(res_stmts.st, res_stmts.out, r.res)
                : res_stmts \in {
                    IF bin_expr.op = "OpAndThen"
                    THEN gen_split_stmt(inner.st, bin_expr.left, inner.out, <<r.res_eq_false>>)
                    ELSE gen_split_stmt(inner.st, bin_expr.left, <<r.res_eq_true>>, inner.out)
                  } } : TRUE
            : inner \in {gen_split_stmt(r.st, bin_expr.right,
                                        <<r.res_eq_true>>, <<r.res_eq_false>>)} } : TRUE
        : r \in {short_circuit_res(st, bin_expr.type)} } : TRUE

\* raise NotImplementedError('Cannot transform ...')
unimplemented(st) == Throw(st, "NotImplementedError")

transform_binop(st, expr) ==
    CHOOSE out \in {
        CHOOSE out2 \in {
            LET o == transform_operator(rhs.st, expr.op, 2) IN
            IF o.st.exc # "none" THEN ER(o.st, <<>>, 0)
            ELSE LET s1 == Alloc(o.st, BinExpr(lhs.e, o.op, rhs.e, expr.type))
                 IN ER(s1, lhs.pre \o rhs.pre, New(s1))
            : rhs \in {transform_expr(lhs.st, expr.right)} } : TRUE
        : lhs \in {transform_expr(st, expr.left)} } : TRUE

transform_unop(st, expr) ==
    CHOOSE out \in {
        LET o == transform_operator(inner.st, expr.op, 1) IN
        IF o.st.exc # "none" THEN ER(o.st, <<>>, 0)
        ELSE LET s1 == Alloc(o.st, UnExpr(o.op, inner.e, expr.type))
             IN ER(s1, inner.pre, New(s1))
        : inner \in {transform_expr(st, expr.expr)} } : TRUE

\* The variable `tmp` of a conditional expression.
if_expr_tmp(st, type_hint) ==
    LET f == fresh_name(st, "tmp")
        s1 == Alloc(f.st, Variable(f.name, type_hint, SyntheticVariable))
        s2 == Alloc(s1, Identifier(New(s1), type_hint))
    IN [st |-> s2, tmp |-> New(s2)]

transform_if_expr_hoisted(st, expr) ==
    CHOOSE out \in {
        CHOOSE out2 \in {
            CHOOSE out3 \in {
                IF else_.st.exc # "none" THEN ER(else_.st, <<>>, 0)
                ELSE CHOOSE out4 \in { ER(g.st, then_.pre \o else_.pre \o g.out, t.tmp)
                        : g \in { LET s3 == Alloc(else_.st, AssignStmt(t.tmp, then_.e))
                                      s4 == Alloc(s3, AssignStmt(t.tmp, else_.e))
                                  IN gen_split_stmt(s4, expr.cond,
                                                    <<New(s3)>>, <<New(s4)>>) } } : TRUE
                : else_ \in {transform_expr(then_.st, expr.else_expr)} } : TRUE
            : then_ \in {transform_expr(t.st, expr.then_expr)} } : TRUE
        : t \in {if_expr_tmp(st, expr.type)} } : TRUE
transform_if_expr(st, expr) ==
    CHOOSE out \in {
        CHOOSE out2 \in {
            CHOOSE out3 \in {
                IF else_.st.exc # "none" THEN ER(else_.st, <<>>, 0)
                ELSE CHOOSE out4 \in { ER(g.st, g.out, t.tmp)
                        : g \in { LET s3 == Alloc(else_.st, AssignStmt(t.tmp, then_.e))
                                      s4 == Alloc(s3, AssignStmt(t.tmp, else_.e))
                                  IN gen_split_stmt(s4, expr.cond,
                                                    then_.pre \o <<New(s3)>>,
                                                    else_.pre \o <<New(s4)>>) } } : TRUE
                : else_ \in {transform_expr(then_.st, expr.else_expr)} } : TRUE
            : then_ \in {transform_expr(t.st, expr.then_expr)} } : TRUE
        : t \in {if_expr_tmp(st, expr.type)} } : TRUE

transform_identifier(st, expr) ==
    CASE expr.ref = "ObjectDecl" ->
            IF <<expr.decl, expr.text>> \in DOMAIN st.var_decls
            THEN LET s1 == Alloc(st, Identifier(st.var_decls[<<expr.decl, expr.text>>],
                                                expr.type))
                 IN ER(s1, <<>>, New(s1))
            ELSE ER(Throw(st, "KeyError"), <<>>, 0)
      [] expr.ref = "EnumLiteralDecl" ->
            LET s1 == Alloc(st, Lit(StrV(<<expr.text>>), expr.type))
            IN ER(s1, <<>>, New(s1))
      [] expr.ref = "NumberDecl" -> transform_expr(st, expr.expr)
      [] expr.ref = "TypeDecl" /\ expr.def = "SignedIntTypeDef" ->
            transform_expr(st, expr.range)
      [] OTHER -> ER(unimplemented(st), <<>>, 0)

transform_explicit_deref(st, expr) ==
    CHOOSE out \in {
        IF prefix.st.exc # "none" THEN ER(prefix.st, <<>>, 0)
        ELSE LET s1 == Alloc(prefix.st, Lit(NULL_LIT, expr.prefix.type))
                 s2 == Alloc(s1, BinExpr(prefix.e, "NEQ", New(s1), bool_type))
                 s3 == Alloc(s2, AssumeStmt(New(s2), DerefCheck(prefix.e)))
                 s4 == Alloc(s3, UnExpr("DEREF", prefix.e, expr.type))
             IN ER(s4, prefix.pre \o <<New(s3)>>, New(s4))
        : prefix \in {transform_expr(st, expr.prefix)} } : TRUE

transform_attribute_ref(st, expr) ==
    CHOOSE out \in {
        IF prefix.st.exc # "none" THEN ER(prefix.st, <<>>, 0)
        ELSE IF expr.attribute \notin DOMAIN attr_2_unop
             THEN ER(Throw(prefix.st, "KeyError"), <<>>, 0)
        ELSE LET s1 == Alloc(prefix.st,
                             UnExpr(attr_2_unop[expr.attribute], prefix.e, expr.type))
             IN ER(s1, prefix.pre, New(s1))
        : prefix \in {transform_expr(st, expr.prefix)} } : TRUE

transform_expr(st, expr) ==
    IF st.exc # "none" THEN ER(st, <<>>, 0)
    ELSE CASE expr.k = "ParenExpr" -> transform_expr(st, expr.expr)
      [] expr.k = "BinOp" ->
            IF expr.op \in {"OpAndThen", "OpOrElse"} THEN transform_short_circuit_ops(st, expr)
            ELSE transform_binop(st, expr)
      [] expr.k = "UnOp" -> transform_unop(st, expr)
      [] expr.k = "IfExpr" -> transform_if_expr(st, expr)
      [] expr.k = "Identifier" -> transform_identifier(st, expr)
      [] expr.k = "IntLiteral" ->
            LET s1 == Alloc(st, Lit(IntV(expr.tok), expr.type)) IN ER(s1, <<>>, New(s1))
      [] expr.k = "NullLiteral" ->
            LET s1 == Alloc(st, Lit(NULL_LIT, expr.type)) IN ER(s1, <<>>, New(s1))
      [] expr.k = "ExplicitDeref" -> transform_explicit_deref(st, expr)
      [] expr.k = "AttributeRef" -> transform_attribute_ref(st, expr)
      [] OTHER -> ER(unimplemented(st), <<>>, 0)

\* var_id.text as a Python str.  A str is the sequence of its parts, a text
\* that ends in a decimal number being its stem and the number: the text
\* tmp0 and "{}{}".format("tmp", 0) are the same str.
str_of(text) == IF text = "tmp0" THEN <<"tmp", 0>> ELSE <<text>>

\* for var_id in decl.f_ids: var_decls[decl, var_id.text] = irt.Variable(...)
RECURSIVE declare_ids(_, _, _)
declare_ids(st, decl, ids) ==
    IF ids = <<>> THEN st
    ELSE LET s1 == Alloc(st, Variable(str_of(Head(ids)), decl.type, NoPurpose))
             s2 == [s1 EXCEPT !.var_decls = (<<decl.nid, Head(ids)>> :> New(s1)) @@ @]
         IN declare_ids(s2, decl, Tail(ids))

\* [irt.ReadStmt(irt.Identifier(var_decls[decl, var_id.text], ...)) for var_id in decl.f_ids]
RECURSIVE read_ids(_, _, _, _)
read_ids(st, decl, ids, out) ==
    IF ids = <<>> THEN SR(st, out)
    ELSE LET s1 == Alloc(st, Identifier(st.var_decls[<<decl.nid, Head(ids)>>], decl.type))
             s2 == Alloc(s1, ReadStmt(New(s1)))
         IN read_ids(s2, decl, Tail(ids), Append(out, Len(st.heap) + 2))

\* [irt.AssignStmt(irt.Identifier(var_decls[decl, var_id.text], ...), dval_expr) for ...]
RECURSIVE assign_ids(_, _, _, _, _)
assign_ids(st, decl, ids, dval_expr, out) ==
    IF ids = <<>> THEN SR(st, out)
    ELSE LET s1 == Alloc(st, Identifier(st.var_decls[<<decl.nid, Head(ids)>>], decl.type))
             s2 == Alloc(s1, AssignStmt(New(s1), dval_expr))
         IN assign_ids(s2, decl, Tail(ids), dval_expr, Append(out, Len(st.heap) + 2))

transform_decl_no_pre(st, decl) ==
    IF st.exc # "none" THEN SR(st, <<>>)
    ELSE CASE decl.k \in {"TypeDecl", "NumberDecl"} -> SR(st, <<>>)
      [] decl.k = "ObjectDecl" ->
            IF decl.default_expr = None
            THEN read_ids(declare_ids(st, decl, decl.ids), decl, decl.ids, <<>>)
            ELSE CHOOSE out \in {
                    IF dval.st.exc # "none" THEN SR(dval.st, <<>>)
                    ELSE assign_ids(dval.st, decl, decl.ids, dval.e, <<>>)
                    : dval \in {transform_expr(declare_ids(st, decl, decl.ids),
                                               decl.default_expr)} } : TRUE
      [] OTHER -> SR(unimplemented(st), <<>>)
transform_decl(st, decl) ==
    IF st.exc # "none" THEN SR(st, <<>>)
    ELSE CASE decl.k \in {"TypeDecl", "NumberDecl"} -> SR(st, <<>>)
      [] decl.k = "ObjectDecl" ->
            IF decl.default_expr = None
            THEN read_ids(declare_ids(st, decl, decl.ids), decl, decl.ids, <<>>)
            ELSE CHOOSE out \in {
                    IF dval.st.exc # "none" THEN SR(dval.st, <<>>)
                    ELSE assign_ids(dval.st, decl, decl.ids, dval.e, dval.pre)
                    : dval \in {transform_expr(declare_ids(st, decl, decl.ids),
                                               decl.default_expr)} } : TRUE
      [] OTHER -> SR(unimplemented(st), <<>>)

\* res = []; for decl in decls: res.extend(transform_decl(decl))
RECURSIVE transform_decls(_, _)
transform_decls(st, decls) ==
    IF decls = <<>> \/ st.exc # "none" THEN SR(st, <<>>)
    ELSE CHOOSE out \in {
            CHOOSE out2 \in { SR(rest.st, d.out \o rest.out)
                : rest \in {transform_decls(d.st, Tail(decls))} } : TRUE
            : d \in {transform_decl(st, Head(decls))} } : TRUE

\* [ctx.evaluator.eval(transform_expr(choice)[1]) for choice in alt.f_choices]
RECURSIVE eval_choices(_, _)
eval_choices(st, choices) ==
    IF choices = <<>> \/ st.exc # "none" THEN [st |-> st, values |-> <<>>]
    ELSE CHOOSE out \in {
            IF c.st.exc # "none" THEN [st |-> c.st, values |-> <<>>]
            ELSE CHOOSE out2 \in {
                    IF v.exc # "none"
                    THEN [st |-> Throw([c.st EXCEPT !.es = v.es], v.exc), values |-> <<>>]
                    ELSE CHOOSE out3 \in {
                            [st |-> rest.st, values |-> <<v.val>> \o rest.values]
                            : rest \in {eval_choices([c.st EXCEPT !.es = v.es],
                                                     Tail(choices))} } : TRUE
                    : v \in {eval(c.st.heap, c.st.es, c.e)} } : TRUE
            : c \in {transform_expr(st, Head(choices))} } : TRUE

IsOthers(alt) == \E i \in DOMAIN alt.choices : alt.choices[i].k = "OthersDesignator"

\* case_alts: the evaluated choices and the transformed statements of each
\* alternative that is not the "others" one.
RECURSIVE gen_case_alts(_, _)
gen_case_alts(st, alts) ==
    IF alts = <<>> \/ st.exc # "none" THEN [st |-> st, alts |-> <<>>]
    ELSE IF IsOthers(Head(alts)) THEN gen_case_alts(st, Tail(alts))
    ELSE CHOOSE out \in {
            CHOOSE out2 \in {
                CHOOSE out3 \in {
                    [st |-> rest.st,
                     alts |-> << [choices |-> c.values, stmts |-> s.out] >> \o rest.alts]
                    : rest \in {gen_case_alts(s.st, Tail(alts))} } : TRUE
                : s \in {transform_stmts(c.st, Head(alts).stmts)} } : TRUE
            : c \in {eval_choices(st, Head(alts).choices)} } : TRUE

\* others_potential_stmts
RECURSIVE gen_others_stmts(_, _)
gen_others_stmts(st, alts) ==
    IF alts = <<>> \/ st.exc # "none" THEN [st |-> st, stmts |-> <<>>]
    ELSE IF ~IsOthers(Head(alts)) THEN gen_others_stmts(st, Tail(alts))
    ELSE CHOOSE out \in {
            CHOOSE out2 \in { [st |-> rest.st, stmts |-> <<s.out>> \o rest.stmts]
                : rest \in {gen_others_stmts(s.st, Tail(alts))} } : TRUE
            : s \in {transform_stmts(st, Head(alts).stmts)} } : TRUE

\* alts_conditions
RECURSIVE gen_alts_conditions(_, _, _)
gen_alts_conditions(st, case_expr, case_alts) ==
    IF case_alts = <<>> \/ st.exc # "none" THEN [st |-> st, conds |-> <<>>]
    ELSE CHOOSE out \in {
            CHOOSE out2 \in { [st |-> rest.st, conds |-> <<c.e>> \o rest.conds]
                : rest \in {gen_alts_conditions(c.st, case_expr, Tail(case_alts))} } : TRUE
            : c \in {gen_case_condition(st, case_expr, Head(case_alts).choices)} } : TRUE

\* [[irt.AssumeStmt(cond)] + stmts for cond, stmts in zip(conds, stmts)]
RECURSIVE gen_branches(_, _, _, _)
gen_branches(st, conds, stmts, branches) ==
    IF conds = <<>> \/ stmts = <<>> THEN [st |-> st, branches |-> branches]
    ELSE gen_branches(Alloc(st, AssumeStmt(Head(conds), NoPurpose)), Tail(conds), Tail(stmts),
                      Append(branches, <<Len(st.heap) + 1>> \o Head(stmts)))

\* From alts_conditions on: others_condition, the branches and the split.
gen_case_split(st, case_pre_stmts, case_alts, others, conds) ==
    IF st.exc # "none" THEN SR(st, <<>>)
    ELSE IF conds = <<>> THEN SR(Throw(st, "TypeError"), <<>>)
    ELSE CHOOSE out \in {
            CHOOSE out2 \in {
                LET s2 == Alloc(b.st, SplitStmt(b.branches))
                IN SR(s2, case_pre_stmts \o <<New(s2)>>)
                : b \in { LET s1 == Alloc(disj.st, UnExpr("NOT", disj.e, bool_type))
                              b1 == gen_branches(s1, conds,
                                        [i \in DOMAIN case_alts |-> case_alts[i].stmts], <<>>)
                          IN gen_branches(b1.st, [i \in DOMAIN others |-> New(s1)], others,
                                          b1.branches) } } : TRUE
            : disj \in {reduce_or(st, Head(conds), Tail(conds))} } : TRUE

transform_case_stmt(st, stmt) ==
    CHOOSE out \in {
        CHOOSE out2 \in {
            CHOOSE out3 \in {
                CHOOSE out4 \in {
                    gen_case_split(conds.st, case_.pre, case_alts.alts, others.stmts,
                                   conds.conds)
                    : conds \in {gen_alts_conditions(others.st, case_.e,
                                                     case_alts.alts)} } : TRUE
                : others \in {gen_others_stmts(case_alts.st, stmt.alts)} } : TRUE
            : case_alts \in {gen_case_alts(case_.st, stmt.alts)} } : TRUE
        : case_ \in {transform_expr(st, stmt.expr)} } : TRUE

\* exit_label = irt.LabelStmt(fresh_name(name)); loop_stack.append((stmt, exit_label))
enter_loop(st, stmt, name) ==
    LET f == fresh_name(st, name)
        s1 == Alloc(f.st, LabelStmt(f.name))
    IN [s1 EXCEPT !.loop_stack = Append(@, <<stmt.nid, New(s1)>>)]

\* The exit label of the innermost loop; loop_stack.pop().
exit_label_of(st) == st.loop_stack[Len(st.loop_stack)][2]
leave_loop(st) == [st EXCEPT !.loop_stack = SubSeq(@, 1, Len(@) - 1)]

transform_loop_stmt_no_label(st, stmt) ==
    CHOOSE out \in {
        IF body.st.exc # "none" THEN SR(body.st, <<>>)
        ELSE LET s1 == Alloc(leave_loop(body.st), LoopStmt(body.out))
             IN SR(s1, <<New(s1)>>)
        : body \in {transform_stmts(enter_loop(st, stmt, "exit_loop"), stmt.stmts)} } : TRUE
transform_loop_stmt(st, stmt) ==
    CHOOSE out \in {
        IF body.st.exc # "none" THEN SR(body.st, <<>>)
        ELSE LET s1 == Alloc(leave_loop(body.st), LoopStmt(body.out))
             IN SR(s1, <<New(s1), exit_label_of(body.st)>>)
        : body \in {transform_stmts(enter_loop(st, stmt, "exit_loop"), stmt.stmts)} } : TRUE

transform_while_loop_stmt_hoisted(st, stmt) ==
    CHOOSE out \in {
        IF cond.st.exc # "none" THEN SR(cond.st, <<>>)
        ELSE CHOOSE out2 \in {
                IF body.st.exc # "none" THEN SR(body.st, <<>>)
                ELSE LET not_cond == Len(cond.st.heap) + 1
                         s1 == Alloc(leave_loop(body.st), AssumeStmt(cond.e, NoPurpose))
                         s2 == Alloc(s1, LoopStmt(<<New(s1)>> \o body.out))
                         s3 == Alloc(s2, AssumeStmt(not_cond, NoPurpose))
                     IN SR(s3, cond.pre \o <<New(s2), New(s3), exit_label_of(body.st)>>)
                : body \in {transform_stmts(
                              enter_loop(Alloc(cond.st, UnExpr("NOT", cond.e,
                                                               cond.st.heap[cond.e].type_hint)),
                                         stmt, "exit_while_loop"),
                              stmt.stmts)} } : TRUE
        : cond \in {transform_expr(st, stmt.cond)} } : TRUE
transform_while_loop_stmt_label_first(st, stmt) ==
    CHOOSE out \in {
        IF cond.st.exc # "none" THEN SR(cond.st, <<>>)
        ELSE CHOOSE out2 \in {
                IF body.st.exc # "none" THEN SR(body.st, <<>>)
                ELSE LET not_cond == Len(cond.st.heap) + 1
                         s1 == Alloc(leave_loop(body.st), AssumeStmt(cond.e, NoPurpose))
                         s2 == Alloc(s1, LoopStmt(cond.pre \o <<New(s1)>> \o body.out))
                         s3 == Alloc(s2, AssumeStmt(not_cond, NoPurpose))
                     IN SR(s3, <<New(s2), exit_label_of(body.st), New(s3)>>)
                : body \in {transform_stmts(
                              enter_loop(Alloc(cond.st, UnExpr("NOT", cond.e,
                                                               cond.st.heap[cond.e].type_hint)),
                                         stmt, "exit_while_loop"),
                              stmt.stmts)} } : TRUE
        : cond \in {transform_expr(st, stmt.cond)} } : TRUE
transform_while_loop_stmt(st, stmt) ==
    CHOOSE out \in {
        IF cond.st.exc # "none" THEN SR(cond.st, <<>>)
        ELSE CHOOSE out2 \in {
                IF body.st.exc # "none" THEN SR(body.st, <<>>)
                ELSE LET not_cond == Len(cond.st.heap) + 1
                         s1 == Alloc(leave_loop(body.st), AssumeStmt(cond.e, NoPurpose))
                         s2 == Alloc(s1, LoopStmt(cond.pre \o <<New(s1)>> \o body.out))
                         s3 == Alloc(s2, AssumeStmt(not_cond, NoPurpose))
                     IN SR(s3, <<New(s2), New(s3), exit_label_of(body.st)>>)
                : body \in {transform_stmts(
                              enter_loop(Alloc(cond.st, UnExpr("NOT", cond.e,
                                                               cond.st.heap[cond.e].type_hint)),
                                         stmt, "exit_while_loop"),
                              stmt.stmts)} } : TRUE
        : cond \in {transform_expr(st, stmt.cond)} } : TRUE

\* The entry of loop_stack that an exit statement leaves.
exited_loop(st, stmt) ==
    IF stmt.loop_name = None THEN
        IF st.loop_stack = <<>> THEN [st |-> Throw(st, "IndexError"), label |-> 0]
        ELSE [st |-> st, label |-> st.loop_stack[Len(st.loop_stack)][2]]
    ELSE LET found == {i \in DOMAIN st.loop_stack : st.loop_stack[i][1] = stmt.loop_name.loop}
         IN IF found = {} THEN [st |-> Throw(st, "StopIteration"), label |-> 0]
            ELSE [st |-> st,
                  label |-> st.loop_stack[CHOOSE i \in found : \A j \in found : i <= j][2]]

transform_exit_stmt(st, stmt) ==
    LET x == exited_loop(st, stmt) IN
    IF x.st.exc # "none" THEN SR(x.st, <<>>)
    ELSE LET s1 == Alloc(x.st, GotoStmt(x.label))
         IN IF stmt.condition = None THEN SR(s1, <<New(s1)>>)
            ELSE gen_split_stmt(s1, stmt.condition, <<Len(st.heap) + 1>>, <<>>)

transform_assign_stmt(st, stmt) ==
    CHOOSE out \in {
        IF e.st.exc # "none" THEN SR(e.st, <<>>)
        ELSE IF <<stmt.dest.decl, stmt.dest.text>> \notin DOMAIN e.st.var_decls
             THEN SR(Throw(e.st, "KeyError"), <<>>)
        ELSE LET s1 == Alloc(e.st, Identifier(e.st.var_decls[<<stmt.dest.decl, stmt.dest.text>>],
                                              stmt.dest.type))
                 s2 == Alloc(s1, AssignStmt(New(s1), e.e))
             IN SR(s2, e.pre \o <<New(s2)>>)
        : e \in {transform_expr(st, stmt.expr)} } : TRUE

transform_if_stmt(st, stmt) ==
    CHOOSE out \in {
        CHOOSE out2 \in {
            IF else_.st.exc # "none" THEN SR(else_.st, <<>>)
            ELSE gen_split_stmt(else_.st, stmt.cond, then_.out, else_.out)
            : else_ \in {transform_stmts(then_.st, stmt.else_stmts)} } : TRUE
        : then_ \in {transform_stmts(st, stmt.then_stmts)} } : TRUE

transform_stmt(st, stmt) ==
    IF st.exc # "none" THEN SR(st, <<>>)
    ELSE CASE stmt.k = "AssignStmt" -> transform_assign_stmt(st, stmt)
      [] stmt.k = "IfStmt" -> transform_if_stmt(st, stmt)
      [] stmt.k = "CaseStmt" -> transform_case_stmt(st, stmt)
      [] stmt.k = "LoopStmt" -> transform_loop_stmt(st, stmt)
      [] stmt.k = "WhileLoopStmt" -> transform_while_loop_stmt(st, stmt)
      [] stmt.k = "ForLoopStmt" -> SR(st, <<>>)
      [] stmt.k = "Label" ->
            IF stmt.decl \in DOMAIN st.labels THEN SR(st, <<st.labels[stmt.decl]>>)
            ELSE SR(Throw(st, "KeyError"), <<>>)
      [] stmt.k = "GotoStmt" ->
            IF stmt.decl \in DOMAIN st.labels
            THEN LET s1 == Alloc(st, GotoStmt(st.labels[stmt.decl])) IN SR(s1, <<New(s1)>>)
            ELSE SR(Throw(st, "KeyError"), <<>>)
      [] stmt.k = "NamedStmt" -> transform_stmt(st, stmt.stmt)
      [] stmt.k = "ExitStmt" -> transform_exit_stmt(st, stmt)
      [] stmt.k = "ExceptionHandler" -> SR(st, <<>>)
      [] OTHER -> SR(unimplemented(st), <<>>)

\* res = []; for stmt in stmts: res.extend(transform_stmt(stmt))
transform_stmts(st, stmts) ==
    IF stmts = <<>> \/ st.exc # "none" THEN SR(st, <<>>)
    ELSE CHOOSE out \in {
            CHOOSE out2 \in { SR(rest.st, s.out \o rest.out)
                : rest \in {transform_stmts(s.st, Tail(stmts))} } : TRUE
            : s \in {transform_stmt(st, Head(stmts))} } : TRUE

\* labels = {label_decl: irt.LabelStmt(label_decl.f_name.text) for ...}
RECURSIVE gen_labels(_, _)
gen_labels(st, decls) ==
    IF decls = <<>> THEN st
    ELSE LET s1 == Alloc(st, LabelStmt(<<"L", Head(decls)>>))
         IN gen_labels([s1 EXCEPT !.labels = (Head(decls) :> New(s1)) @@ @], Tail(decls))

\* The state of a call of _gen_ir before it transforms anything.
gen_ir_state(h, es, subp) ==
    gen_labels([heap |-> h, es |-> es, var_decls |-> <<>>, tmp_vars |-> <<>>,
                labels |-> <<>>, loop_stack |-> <<>>, exc |-> "none"], subp.labels)

\* _gen_ir(ctx, subp) on heap h with the context's evaluator in state es:
\* the state it ends in (heap, evaluator, exception) and the statements
\* of the program.
gen_ir(h, es, subp) ==
    CHOOSE out \in {
        CHOOSE out2 \in { [st |-> s.st, stmts |-> d.out \o s.out]
            : s \in {transform_stmts(d.st, subp.stmts)} } : TRUE
        : d \in {transform_decls(gen_ir_state(h, es, subp), subp.decls)} } : TRUE

(***************************************************************************)
(* ConvertUniversalTypes.  `st` is [heap, es, exc]: the visitor mutates   *)
(* the nodes of the heap in place and shares the context's evaluator.     *)
(* The implicit visitor visits the children of every node whose kind has  *)
(* no method of its own: the statements of a Split's branches and of a    *)
(* Loop.                                                                   *)
(***************************************************************************)
has_universal_type(h, expr) == h[expr].type_hint \in {universal_int, universal_real}

RECURSIVE converter_visit(_, _)
RECURSIVE converter_visit_all(_, _)

try_convert_expr_incr(st, expr, expected_type) ==
    CHOOSE out \in {
        IF r.exc = "none"
        THEN LET v == IF r.val.t = "int" THEN IntV(r.val.i + 1) ELSE r.val
                 s2 == Alloc([st EXCEPT !.es = r.es], Lit(v, expected_type))
             IN [st |-> s2, e |-> New(s2)]
        ELSE IF r.exc = "NotConstExprError"
        THEN [st |-> converter_visit([st EXCEPT !.es = r.es], expr), e |-> expr]
        ELSE [st |-> Throw([st EXCEPT !.es = r.es], r.exc), e |-> expr]
        : r \in {eval(st.heap, st.es, expr)} } : TRUE
try_convert_expr_in_place(st, expr, expected_type) ==
    CHOOSE out \in {
        IF r.exc = "none"
        THEN LET v == IF r.val.t = "int" THEN IntV(r.val.i + 1) ELSE r.val
             IN [st |-> [st EXCEPT !.es = r.es, !.heap[expr] = Lit(v, expected_type)],
                 e |-> expr]
        ELSE IF r.exc = "NotConstExprError"
        THEN [st |-> converter_visit([st EXCEPT !.es = r.es], expr), e |-> expr]
        ELSE [st |-> Throw([st EXCEPT !.es = r.es], r.exc), e |-> expr]
        : r \in {eval(st.heap, st.es, expr)} } : TRUE
try_convert_expr(st, expr, expected_type) ==
    CHOOSE out \in {
        IF r.exc = "none"
        THEN LET s2 == Alloc([st EXCEPT !.es = r.es], Lit(r.val, expected_type))
             IN [st |-> s2, e |-> New(s2)]
        ELSE IF r.exc = "NotConstExprError"
        THEN [st |-> converter_visit([st EXCEPT !.es = r.es], expr), e |-> expr]
        ELSE [st |-> Throw([st EXCEPT !.es = r.es], r.exc), e |-> expr]
        : r \in {eval(st.heap, st.es, expr)} } : TRUE

visit_assign(st, assign) ==
    CHOOSE out \in {
        IF c.st.exc # "none" THEN c.st ELSE [c.st EXCEPT !.heap[assign].expr = c.e]
        : c \in {try_convert_expr(st, st.heap[assign].expr,
                                  st.heap[st.heap[assign].id].type_hint)} } : TRUE

visit_assume(st, assume) ==
    CHOOSE out \in {
        IF c.st.exc # "none" THEN c.st ELSE [c.st EXCEPT !.heap[assume].expr = c.e]
        : c \in {try_convert_expr(st, st.heap[assume].expr, bool_type)} } : TRUE

\* binexpr.rhs = self.try_convert_expr(binexpr.rhs, expected_type)
convert_rhs(st, binexpr, expected_type) ==
    CHOOSE out \in {
        IF r.st.exc # "none" THEN r.st ELSE [r.st EXCEPT !.heap[binexpr].rhs = r.e]
        : r \in {try_convert_expr(st, st.heap[binexpr].rhs, expected_type)} } : TRUE

converter_visit_binexpr_flipping(st, binexpr) ==
    LET b == st.heap[binexpr]
        expected_type == IF has_universal_type(st.heap, b.rhs)
                         THEN st.heap[b.lhs].type_hint
                         ELSE st.heap[b.rhs].type_hint
    IN CHOOSE out \in {
           IF l.st.exc # "none" THEN l.st
           ELSE CHOOSE out2 \in {
                   IF r.exc # "none" THEN r
                   ELSE [r EXCEPT !.heap[binexpr].type_hint =
                                      IF @ = bool_type THEN int_type ELSE bool_type]
                   : r \in {convert_rhs([l.st EXCEPT !.heap[binexpr].lhs = l.e], binexpr,
                                        expected_type)} } : TRUE
           : l \in {try_convert_expr(st, b.lhs, expected_type)} } : TRUE
converter_visit_binexpr(st, binexpr) ==
    LET b == st.heap[binexpr]
        expected_type == IF has_universal_type(st.heap, b.rhs)
                         THEN st.heap[b.lhs].type_hint
                         ELSE st.heap[b.rhs].type_hint
    IN CHOOSE out \in {
           IF l.st.exc # "none" THEN l.st
           ELSE convert_rhs([l.st EXCEPT !.heap[binexpr].lhs = l.e], binexpr, expected_type)
           : l \in {try_convert_expr(st, b.lhs, expected_type)} } : TRUE

converter_visit_unexpr(st, unexpr) == converter_visit(st, st.heap[unexpr].expr)

\* The statements of every branch of a Split, in order.
RECURSIVE Flatten(_)
Flatten(branches) == IF branches = <<>> THEN <<>> ELSE Head(branches) \o Flatten(Tail(branches))

\* node.visit(converter): the dispatch of tree._visitable.
converter_visit(st, n) ==
    IF st.exc # "none" THEN st
    ELSE CASE st.heap[n].k = "AssignStmt" -> visit_assign(st, n)
           [] st.heap[n].k = "AssumeStmt" -> visit_assume(st, n)
           [] st.heap[n].k = "BinExpr" -> converter_visit_binexpr(st, n)
           [] st.heap[n].k = "UnExpr" -> converter_visit_unexpr(st, n)
           [] st.heap[n].k = "SplitStmt" -> converter_visit_all(st, Flatten(st.heap[n].branches))
           [] st.heap[n].k = "LoopStmt" -> converter_visit_all(st, st.heap[n].stmts)
           [] OTHER -> st

converter_visit_all(st, stmts) ==
    IF stmts = <<>> \/ st.exc # "none" THEN st
    ELSE converter_visit_all(converter_visit(st, Head(stmts)), Tail(stmts))

(***************************************************************************)
(* The tree below a node, read structurally: node identities forgotten,   *)
(* kinds, operators, literal values, names and type hints kept.           *)
(***************************************************************************)
RECURSIVE TreeOf(_, _)
RECURSIVE TreesOf(_, _)
TreeOf(h, n) ==
    CASE h[n].k = "BinExpr" ->
            [h[n] EXCEPT !.lhs = TreeOf(h, h[n].lhs), !.rhs = TreeOf(h, h[n].rhs)]
      [] h[n].k = "UnExpr" -> [h[n] EXCEPT !.expr = TreeOf(h, h[n].expr)]
      [] h[n].k = "Identifier" -> [h[n] EXCEPT !.var = h[h[n].var]]
      [] h[n].k = "AssignStmt" ->
            [h[n] EXCEPT !.id = TreeOf(h, h[n].id), !.expr = TreeOf(h, h[n].expr)]
      [] h[n].k = "AssumeStmt" ->
            [h[n] EXCEPT !.expr = TreeOf(h, h[n].expr),
                         !.purpose = IF h[n].purpose.k = "DerefCheck"
                                     THEN DerefCheck(TreeOf(h, h[n].purpose.expr))
                                     ELSE h[n].purpose]
      [] h[n].k = "ReadStmt" -> [h[n] EXCEPT !.id = TreeOf(h, h[n].id)]
      [] h[n].k = "GotoStmt" -> [h[n] EXCEPT !.label = h[h[n].label]]
      [] h[n].k = "SplitStmt" ->
            [h[n] EXCEPT !.branches = [b \in DOMAIN h[n].branches |->
                                          TreesOf(h, h[n].branches[b])]]
      [] h[n].k = "LoopStmt" -> [h[n] EXCEPT !.stmts = TreesOf(h, h[n].stmts)]
      [] OTHER -> h[n]
TreesOf(h, stmts) == [i \in DOMAIN stmts |-> TreeOf(h, stmts[i])]

\* What the last call of eval did: nothing yet.
NoCall ==
    [node |-> 0, hit |-> FALSE, calls0 |-> 0, cache0 |-> <<>>, val |-> NoVal,
     exc |-> "none", n |-> 0]

(***************************************************************************)
(* extract_programs(ctx, ada_file): every subprogram body of the unit is  *)
(* lowered by _gen_ir, then the normalizer visits every program.  The     *)
(* context's evaluator (cache, calls, oids) is shared by all of it.       *)
(***************************************************************************)
\* Integer literals of type universal_integer, as libadalang types them.
IntLit(k) == A_IntLiteral(k, universal_int)
IntLits == {IntLit(k) : k \in 0 .. MaxInt}

\* X, Y : Integer; B, C : Boolean; P : an access to Integer.
RX == A_ObjectRef(1, "X", int_type)
RB == A_ObjectRef(2, "B", bool_type)
RC == A_ObjectRef(2, "C", bool_type)
RP == A_ObjectRef(4, "P", "IntAccess")

\* type T is range 0 .. k
T_Range(k) == A_TypeRef("SignedIntTypeDef", A_BinOp("OpDoubleDot", IntLit(0), IntLit(k), "T"))

Decls ==
    << A_TypeDecl,
       A_NumberDecl(IntLit(1)),
       A_ObjectDecl(1, <<"X">>, int_type, None),
       A_ObjectDecl(2, <<"B", "C">>, bool_type, None),
       A_ObjectDecl(3, <<"Y">>, int_type, IntLit(0)),
       A_ObjectDecl(4, <<"P">>, "IntAccess", A_NullLiteral("IntAccess")) >>

IntExprs ==
    IntLits \cup {RX, A_ParenExpr(RX), A_ExplicitDeref(RP, int_type),
                  A_AttributeRef(RX, "Length", universal_int),
                  A_BinOp("OpMult", RX, RX, int_type)}
    \cup {A_BinOp("OpPlus", RX, l, int_type) : l \in IntLits}
    \cup {A_BinOp("OpMinus", l, IntLit(0), universal_int) : l \in IntLits}
    \cup {A_UnOp("OpMinus", l, universal_int) : l \in IntLits}
    \cup {A_NumberRef(l) : l \in IntLits}
    \cup {A_AttributeRef(T_Range(k), a, "T") : k \in 0 .. MaxInt, a \in {"First", "Last"}}
    \cup {A_IfExpr(RB, l, IntLit(0), ty) : l \in IntLits, ty \in {int_type, universal_int}}

ShortCircuitOps == {"OpAndThen", "OpOrElse"}
BoolAtoms == {RB, RC}
ShortCircuits1 == {A_BinOp(op, l, r, bool_type) : op \in ShortCircuitOps, l, r \in BoolAtoms}
ShortCircuits2 ==
    {A_BinOp(op, RB, r, bool_type) : op \in ShortCircuitOps, r \in ShortCircuits1}
    \cup {A_BinOp(op, l, RC, bool_type) : op \in ShortCircuitOps, l \in ShortCircuits1}
BoolExprs ==
    BoolAtoms \cup ShortCircuits1 \cup ShortCircuits2
    \cup {A_EnumRef("True", bool_type), A_UnOp("OpNot", RB, bool_type),
          A_BinOp("OpAnd", RB, RC, bool_type),
          A_BinOp("OpOrElse", A_BinOp("OpLt", RX, IntLit(1), bool_type), RB, bool_type)}
    \cup {A_BinOp(op, RX, l, bool_type) : op \in {"OpLt", "OpEq"}, l \in IntLits}
    \cup {A_BinOp("OpGt", A_IfExpr(RB, l, IntLit(0), universal_int), IntLit(0), bool_type) :
            l \in IntLits}

\* X again, as a programmer may spell it: Ada identifiers are not case
\* sensitive, expr.text is the spelling at the place of use.
Rx == A_ObjectRef(1, "x", int_type)

\* B := not True: a constant expression of type Boolean.
NotTrue == A_AssignStmt(RB, A_UnOp("OpNot", A_EnumRef("True", bool_type), bool_type))

Assigns ==
    {A_AssignStmt(RX, e) : e \in IntExprs} \cup {A_AssignStmt(RB, e) : e \in BoolExprs}
    \cup {A_AssignStmt(Rx, IntLit(0)), A_AssignStmt(RX, Rx), A_AssignStmt(RB, RC),
          A_AssignStmt(RC, RC), NotTrue}

\* Statement lists of the branches of the compound statements.
Blocks ==
    { <<>>, <<A_AssignStmt(RX, IntLit(0))>>, <<A_AssignStmt(RX, IntLit(1))>>,
      <<A_AssignStmt(RB, A_BinOp("OpAndThen", RB, RC, bool_type))>> }
Conds ==
    {RB, A_BinOp("OpLt", RX, IntLit(1), bool_type),
     A_BinOp("OpAndThen", RB, RC, bool_type), A_BinOp("OpOrElse", RB, RC, bool_type),
     A_BinOp("OpAndThen", RB, A_BinOp("OpOrElse", RC, RB, bool_type), bool_type)}
Ifs ==
    {A_IfStmt(c, t, <<>>, e) : c \in Conds, t \in Blocks, e \in Blocks}
    \cup {A_IfStmt(RB, <<A_AssignStmt(RX, IntLit(0))>>,
                   << [cond |-> RC, stmts |-> <<A_AssignStmt(RX, IntLit(1))>>] >>, <<>>)}

\* The choices of one case alternative: literals and ranges lo .. hi.
Ranges ==
    {A_BinOp("OpDoubleDot", IntLit(lo), IntLit(hi), universal_int) :
        lo \in 0 .. MaxInt, hi \in 1 .. MaxInt}
Choices ==
    {<<l>> : l \in IntLits} \cup {<<r>> : r \in Ranges} \cup {<<IntLit(0), IntLit(1)>>}
OthersAlt == A_CaseAlt(<<A_Others>>, <<A_AssignStmt(RB, RC)>>)
CaseAlts ==
    {<<A_CaseAlt(c, <<A_AssignStmt(RX, IntLit(0))>>)>> : c \in Choices}
    \cup {<<A_CaseAlt(c, <<>>), A_CaseAlt(d, <<A_AssignStmt(RX, IntLit(1))>>)>> :
            c \in Choices, d \in Choices}
Cases ==
    {A_CaseStmt(RX, a) : a \in CaseAlts} \cup {A_CaseStmt(RX, a \o <<OthersAlt>>) : a \in CaseAlts}
    \cup {A_CaseStmt(RX, <<OthersAlt>>),
          A_CaseStmt(RB, <<A_CaseAlt(<<A_EnumRef("True", bool_type)>>, <<>>), OthersAlt>>)}

ExitWhenB == A_ExitStmt(None, RB)
IncrX == A_AssignStmt(RX, A_BinOp("OpPlus", RX, IntLit(1), int_type))
Loops ==
    { A_LoopStmt(10, <<A_ExitStmt(None, None)>>),
      A_LoopStmt(10, <<ExitWhenB>>),
      A_LoopStmt(10, <<IncrX, A_ExitStmt(None, A_BinOp("OpAndThen", RB, RC, bool_type))>>),
      A_NamedStmt(A_LoopStmt(10, <<A_NamedStmt(A_LoopStmt(11,
          <<A_ExitStmt(A_LoopName(10), RB), A_ExitStmt(A_LoopName(11), None)>>))>>)),
      A_WhileLoopStmt(12, RB, <<A_ExitStmt(None, RC)>>),
      A_WhileLoopStmt(12, A_BinOp("OpAndThen", RB, RC, bool_type), <<IncrX>>),
      A_WhileLoopStmt(12, A_BinOp("OpGt", A_ExplicitDeref(RP, int_type), IntLit(0), bool_type),
                      <<IncrX>>),
      A_LoopStmt(10, <<A_WhileLoopStmt(12, RB, <<A_ExitStmt(A_LoopName(10), None)>>),
                       A_ExitStmt(None, None)>>),
      A_LoopStmt(10, <<A_ForLoopStmt(13, <<A_ExitStmt(A_LoopName(10), None)>>), ExitWhenB>>),
      A_ForLoopStmt(13, <<ExitWhenB>>),
      A_WhileLoopStmt(12, RB, <<IncrX, A_ExitStmt(None, None)>>),
      A_NamedStmt(A_WhileLoopStmt(12, A_BinOp("OpOrElse", RB, RC, bool_type),
          <<A_LoopStmt(10, <<A_ExitStmt(A_LoopName(12), RC), A_ExitStmt(None, None)>>),
            ExitWhenB>>)),
      A_NamedStmt(A_WhileLoopStmt(12, RB,
          <<A_ForLoopStmt(13, <<A_ExitStmt(A_LoopName(12), None)>>), IncrX>>)) }

\* Statement lists with the label <<L1>>.
Jumps ==
    { <<A_GotoStmt(1), A_AssignStmt(RX, IntLit(0)), A_Label(1)>>,
      <<A_Label(1), IncrX, A_IfStmt(RB, <<A_GotoStmt(1)>>, <<>>, <<>>)>>,
      <<A_ForLoopStmt(13, <<A_Label(1), A_GotoStmt(1)>>)>>,
      <<A_ForLoopStmt(13, <<A_GotoStmt(1)>>), A_Label(1)>>,
      <<A_LoopStmt(10, <<A_IfStmt(RB, <<A_GotoStmt(1)>>, <<>>, <<>>), ExitWhenB>>), A_Label(1)>> }

\* D, E : Boolean := <initializer>; Z : Integer := <initializer>, after B, C.
RD == A_ObjectRef(5, "D", bool_type)
RE == A_ObjectRef(5, "E", bool_type)
RZ == A_ObjectRef(6, "Z", int_type)
DeclsInit ==
    { << A_ObjectDecl(2, <<"B", "C">>, bool_type, None),
         A_TypeDecl,
         A_ObjectDecl(5, <<"D", "E">>, bool_type, b),
         A_NumberDecl(IntLit(1)),
         A_ObjectDecl(6, <<"Z">>, int_type, z) >> :
        b \in {RB, A_BinOp("OpAndThen", RB, RC, bool_type),
               A_BinOp("OpOrElse", RC, A_BinOp("OpAndThen", RB, RC, bool_type), bool_type)},
        z \in {IntLit(0), A_IfExpr(RB, IntLit(1), IntLit(0), int_type)} }
InitStmts ==
    { <<>>, <<A_AssignStmt(RD, RE)>>, <<A_AssignStmt(RZ, RZ), A_AssignStmt(RE, RB)>>,
      <<A_AssignStmt(RD, A_UnOp("OpNot", RE, bool_type))>> }

\* B, C : Boolean; tmp0 : Boolean, a name a programmer may well choose.
RTmp0 == A_ObjectRef(7, "tmp0", bool_type)
DeclsTmp ==
    << A_ObjectDecl(2, <<"B", "C">>, bool_type, None),
       A_ObjectDecl(7, <<"tmp0">>, bool_type, None) >>
TmpStmts ==
    { A_AssignStmt(RTmp0, RC),
      A_AssignStmt(RB, A_BinOp("OpAndThen", RB, RC, bool_type)),
      A_WhileLoopStmt(12, A_BinOp("OpOrElse", RB, RC, bool_type),
                      <<A_LoopStmt(10, <<ExitWhenB>>), A_LoopStmt(11, <<ExitWhenB>>),
                        A_AssignStmt(RC, A_BinOp("OpAndThen", RC, RB, bool_type))>>) }

\* Assignments whose conditionally evaluated operand has pre-statements:
\* the null check of P.all, the split of an if expression.
DerefPos == A_BinOp("OpGt", A_ExplicitDeref(RP, int_type), IntLit(0), bool_type)
CondStmts ==
    { <<A_AssignStmt(RX, A_IfExpr(RB, t, e, int_type))>> :
        t, e \in {IntLit(0), A_ExplicitDeref(RP, int_type),
                  A_IfExpr(RC, IntLit(1), IntLit(0), int_type)} }
    \cup { <<A_AssignStmt(RX, IntLit(0)), A_AssignStmt(RB, A_BinOp(op, l, r, bool_type))>> :
              op \in ShortCircuitOps, l \in {RB, A_BinOp("OpLt", RX, IntLit(1), bool_type)},
              r \in {DerefPos,
                     A_BinOp("OpGt", A_IfExpr(RC, A_ExplicitDeref(RP, int_type), IntLit(0),
                                              int_type),
                             IntLit(0), bool_type)} }

\* Statements in the places the frontend does not visit.
HandlerStmts ==
    { <<A_AssignStmt(RX, IntLit(0)), A_ExceptionHandler(<<A_AssignStmt(RX, IntLit(1))>>)>> }

Subprograms ==
    {A_SubpBody(<<>>, Decls, s) : s \in CondStmts \cup HandlerStmts} \cup
    {A_SubpBody(<<>>, Decls, <<s>>) :
        s \in Assigns \cup Ifs \cup Cases \cup Loops \cup {A_NullStmt, A_ExceptionHandler(<<>>)}}
    \cup {A_SubpBody(<<1>>, Decls, j) : j \in Jumps}
    \cup {A_SubpBody(<<>>, <<[k |-> "SubpBody"]>>, <<>>)}
    \cup {A_SubpBody(<<>>, d, s) : d \in DeclsInit, s \in InitStmts}
    \cup {A_SubpBody(<<>>, DeclsTmp, <<s>>) : s \in TmpStmts}

\* Units of two subprograms: the evaluator and the heap are shared.
Pairs ==
    {<<A_SubpBody(<<>>, Decls, <<a>>), A_SubpBody(<<>>, Decls, <<b>>)>> :
        a \in {A_AssignStmt(RX, IntLit(0)), A_NullStmt, A_CaseStmt(RX, <<OthersAlt>>)},
        b \in {A_AssignStmt(RX, IntLit(1)), A_CaseStmt(RX, <<A_CaseAlt(<<IntLit(0)>>, <<>>)>>)}}

Units == {<<s>> : s \in Subprograms} \cup Pairs

Prog(stmts) == [stmts |-> stmts, runs |-> 0, before |-> <<>>]

Init ==
    /\ unit \in Units
    /\ pc = "lowering"
    /\ heap = <<>>
    /\ progs = <<>>
    /\ cache = <<>>
    /\ calls = 0
    /\ oids = 0
    /\ last = NoCall
    /\ fault = "none"

\* One iteration of progs = [_gen_ir(ctx, subp) for subp in ...].
GenIr ==
    /\ pc = "lowering"
    /\ \E r \in {gen_ir(heap, [cache |-> cache, calls |-> calls, oids |-> oids],
                       unit[Len(progs) + 1])} :
          /\ heap' = r.st.heap
          /\ cache' = r.st.es.cache
          /\ calls' = r.st.es.calls
          /\ oids' = r.st.es.oids
          /\ IF r.st.exc # "none"
             THEN /\ pc' = "failed"
                  /\ fault' = r.st.exc
                  /\ progs' = progs
             ELSE /\ pc' = IF Len(progs) + 1 = Len(unit) THEN "converting" ELSE "lowering"
                  /\ fault' = fault
                  /\ progs' = Append(progs, Prog(r.stmts))
    /\ UNCHANGED <<unit, last>>

\* prog.visit(converter) on program i; `before` keeps the tree it ran on.
RunConverter(i) ==
    \E r \in {converter_visit_all(
                 [heap |-> heap, es |-> [cache |-> cache, calls |-> calls, oids |-> oids],
                  exc |-> "none"], progs[i].stmts)} :
       /\ heap' = r.heap
       /\ cache' = r.es.cache
       /\ calls' = r.es.calls
       /\ oids' = r.es.oids
       /\ progs' = [progs EXCEPT ![i].runs = @ + 1,
                                 ![i].before = TreesOf(heap, progs[i].stmts)]
       /\ fault' = r.exc

\* One iteration of for prog in progs: prog.visit(converter).
Convert ==
    /\ pc = "converting"
    /\ LET i == CHOOSE j \in DOMAIN progs :
                    progs[j].runs = 0 /\ \A l \in 1 .. j - 1 : progs[l].runs > 0
       IN /\ RunConverter(i)
          /\ pc' = IF fault' # "none" THEN "failed"
                   ELSE IF i = Len(progs) THEN "returned" ELSE "converting"
    /\ UNCHANGED <<unit, last>>

\* A client runs the normalizer again on a returned program.
Reconvert(i) ==
    /\ pc = "returned"
    /\ progs[i].runs < MaxRuns
    /\ RunConverter(i)
    /\ pc' = IF fault' # "none" THEN "failed" ELSE pc
    /\ UNCHANGED <<unit, last>>

Next == GenIr \/ Convert \/ \E i \in DOMAIN progs : Reconvert(i)

Spec == Init /\ [][Next]_vars

(***************************************************************************)
(* The evaluator on its own: a client builds an expression tree and calls *)
(* eval on its nodes.                                                     *)
(***************************************************************************)
T_Lit(val) == [k |-> "Lit", val |-> val]
T_Id(name) == [k |-> "Identifier", name |-> name]
T_Bin(op, l, r) == [k |-> "BinExpr", op |-> op, l |-> l, r |-> r]
T_Un(op, e) == [k |-> "UnExpr", op |-> op, e |-> e]

\* Allocates the nodes of tree t, children first; the root is the last node.
RECURSIVE Build(_, _)
Build(h, t) ==
    CASE t.k = "Lit" -> Append(h, Lit(t.val, "Integer"))
      [] t.k = "Identifier" -> Append(h, Identifier(t.name, "Integer"))
      [] t.k = "UnExpr" ->
            LET h1 == Build(h, t.e) IN Append(h1, UnExpr(t.op, Len(h1), "Integer"))
      [] t.k = "BinExpr" ->
            LET h1 == Build(h, t.l)
                h2 == Build(h1, t.r)
            IN Append(h2, BinExpr(Len(h1), t.op, Len(h2), "Integer"))

\* The unary operators of tree.un_ops: ADDRESS and DEREF have no entry in UnOps.
AllUnOps == UnOpSyms \cup {"ADDRESS", "DEREF"}

Leaves ==
    {T_Lit(IntV(i)) : i \in 0 .. MaxInt} \cup {T_Lit(ADA_TRUE), T_Lit(ADA_FALSE), T_Id("X")}
Depth1 ==
    {T_Bin(op, a, b) : op \in BinOpSyms, a \in Leaves, b \in Leaves}
        \cup {T_Un(op, a) : op \in AllUnOps, a \in Leaves}
Depth2 ==
    {T_Un(op, d) : op \in AllUnOps, d \in Depth1}
        \cup {T_Bin(op, d, d) : op \in {"MINUS", "AND"}, d \in Depth1}
        \cup {T_Bin(op, d, a) : op \in {"PLUS", "LT"}, d \in Depth1, a \in Leaves}
Trees == Leaves \cup Depth1 \cup Depth2

EmptyEs == [cache |-> <<>>, calls |-> 0, oids |-> 0]
InitEval ==
    /\ unit = <<>>
    /\ pc = "client"
    /\ \E t \in Trees : heap = Build(<<>>, t)
    /\ progs = <<>>
    /\ cache = <<>>
    /\ calls = 0
    /\ oids = 0
    /\ last = NoCall
    /\ fault = "none"

\* A client calls ctx.evaluator.eval(node).
Eval(n) ==
    /\ pc = "client"
    /\ last.n < MaxEvals
    /\ LET r == eval(heap, [cache |-> cache, calls |-> calls, oids |-> oids], n) IN
       /\ cache' = r.es.cache
       /\ calls' = r.es.calls
       /\ oids' = r.es.oids
       /\ last' = [node |-> n, hit |-> n \in DOMAIN cache, calls0 |-> calls,
                   cache0 |-> cache, val |-> r.val, exc |-> r.exc, n |-> last.n + 1]
    /\ UNCHANGED <<unit, pc, heap, progs, fault>>

NextEval == \E n \in DOMAIN heap : Eval(n)

SpecEval == InitEval /\ [][NextEval]_vars

(***************************************************************************)
(* Reference evaluation of a closed expression, by Ada's rules: an        *)
(* integer, a boolean, an inclusive range, or undefined (an identifier,   *)
(* an operator without a rule, an operand of the wrong kind).             *)
(***************************************************************************)
RInt(i) == [t |-> "int", i |-> i]
RBool(b) == [t |-> "bool", b |-> b]
RRange(lo, hi) == [t |-> "range", lo |-> lo, hi |-> hi]
RUndef == [t |-> "undef"]

RefBin(op, a, b) ==
    IF a.t = "int" /\ b.t = "int" THEN
        CASE op = "PLUS" -> RInt(a.i + b.i)
          [] op = "MINUS" -> RInt(a.i - b.i)
          [] op = "EQ" -> RBool(a.i = b.i)
          [] op = "NEQ" -> RBool(a.i # b.i)
          [] op = "LT" -> RBool(a.i < b.i)
          [] op = "LE" -> RBool(a.i <= b.i)
          [] op = "GE" -> RBool(a.i >= b.i)
          [] op = "GT" -> RBool(a.i > b.i)
          [] op = "DOT_DOT" -> RRange(a.i, b.i)
          [] OTHER -> RUndef
    ELSE IF a.t = "bool" /\ b.t = "bool" THEN
        CASE op = "AND" -> RBool(a.b /\ b.b)
          [] op = "OR" -> RBool(a.b \/ b.b)
          [] op = "EQ" -> RBool(a.b <=> b.b)
          [] op = "NEQ" -> RBool(~(a.b <=> b.b))
          [] op = "LT" -> RBool(~a.b /\ b.b)
          [] op = "LE" -> RBool(a.b => b.b)
          [] op = "GE" -> RBool(b.b => a.b)
          [] op = "GT" -> RBool(a.b /\ ~b.b)
          [] OTHER -> RUndef
    ELSE RUndef

RefUn(op, a) ==
    CASE op = "NOT" /\ a.t = "bool" -> RBool(~a.b)
      [] op = "NEG" /\ a.t = "int" -> RInt(0 - a.i)
      [] op = "GET_FIRST" /\ a.t = "range" -> RInt(a.lo)
      [] op = "GET_LAST" /\ a.t = "range" -> RInt(a.hi)
      [] OTHER -> RUndef

RECURSIVE Ref(_, _)
Ref(h, n) ==
    CASE h[n].k = "Lit" ->
            IF h[n].val.t = "int" THEN RInt(h[n].val.i)
            ELSE IF h[n].val = StrV(<<"True">>) THEN RBool(TRUE)
            ELSE IF h[n].val = StrV(<<"False">>) THEN RBool(FALSE)
            ELSE RUndef
      [] h[n].k = "BinExpr" ->
            LET a == Ref(h, h[n].lhs)
                b == Ref(h, h[n].rhs)
            IN IF a = RUndef \/ b = RUndef THEN RUndef ELSE RefBin(h[n].bin_op, a, b)
      [] h[n].k = "UnExpr" ->
            LET a == Ref(h, h[n].expr)
            IN IF a = RUndef THEN RUndef ELSE RefUn(h[n].un_op, a)
      [] OTHER -> RUndef

\* The evaluator's value v is the reference value r.
Agrees(v, r) ==
    CASE r.t = "int" -> v = [t |-> "int", i |-> r.i]
      [] r.t = "bool" -> v = [t |-> "str", s |-> IF r.b THEN <<"True">> ELSE <<"False">>]
      [] r.t = "range" ->
            /\ v.t = "Range"
            /\ v.first = [t |-> "int", i |-> r.lo]
            /\ v.last = [t |-> "int", i |-> r.hi]
      [] OTHER -> FALSE

\* An uncached evaluation of node n.
Fresh(n) == eval(heap, EmptyEs, n)

Operands(n) ==
    CASE heap[n].k = "BinExpr" -> {heap[n].lhs, heap[n].rhs}
      [] heap[n].k = "UnExpr" -> {heap[n].expr}
      [] OTHER -> {}

NoRule(n) ==
    \/ heap[n].k = "BinExpr" /\ heap[n].bin_op \notin BinOpSyms
    \/ heap[n].k = "UnExpr" /\ heap[n].un_op \notin UnOpSyms

\* C7: constant evaluation fails with NotConstExprError whenever the
\* expression is an identifier, applies an operator without a rule or has an
\* operand whose evaluation fails, and NotConstExprError is the only kind
\* of failure eval produces.
C7_OnlyNotConstant ==
    last.n > 0 =>
        /\ last.exc \in {"none", "NotConstExprError"}
        /\ ( \/ heap[last.node].k = "Identifier"
             \/ NoRule(last.node)
             \/ \E m \in Operands(last.node) : Fresh(m).exc # "none" )
           => last.exc = "NotConstExprError"

\* C8: for every identifier-free expression over integer and boolean
\* literals on which the reference evaluation is defined, eval succeeds and
\* returns the reference value (literals themselves, sums, differences,
\* comparisons, and/or/not, ranges and their bounds).
C8_EvalIsReference ==
    (last.n > 0 /\ Ref(heap, last.node) # RUndef) =>
        /\ last.exc = "none"
        /\ Agrees(last.val, Ref(heap, last.node))

\* C8's case: eval has returned the upper bound of a range built by lo .. hi.
C8_Witness ==
    /\ last.n > 0
    /\ ~last.hit
    /\ last.exc = "none"
    /\ heap[last.node].k = "UnExpr"
    /\ heap[last.node].un_op = "GET_LAST"
    /\ heap[heap[last.node].expr].k = "BinExpr"
    /\ heap[heap[last.node].expr].bin_op = "DOT_DOT"
    /\ last.val = IntV(1)

\* C9: a node that was evaluated successfully is served from the memo
\* table from then on (same value, no operator rule applied, table
\* unchanged), entries are never dropped or changed, and a node that has no
\* entry of its own is evaluated by its own rule even when a structurally
\* equal node has an entry.
C9_MemoByIdentity ==
    last.n > 0 =>
        /\ last.hit =>
              /\ last.exc = "none"
              /\ last.val = last.cache0[last.node]
              /\ calls = last.calls0
              /\ cache = last.cache0
        /\ \A m \in DOMAIN last.cache0 : m \in DOMAIN cache /\ cache[m] = last.cache0[m]
        /\ (~last.hit /\ last.exc = "none") =>
              /\ last.node \in DOMAIN cache
              /\ cache[last.node] = last.val
              /\ heap[last.node].k \in {"BinExpr", "UnExpr"} => calls > last.calls0

\* C9's case: an operator node is served from the table while a distinct,
\* structurally equal node has an entry of its own.
C9_Witness ==
    /\ last.n > 0
    /\ last.hit
    /\ heap[last.node].k \in {"BinExpr", "UnExpr"}
    /\ \E m \in DOMAIN cache :
          /\ m # last.node
          /\ StructOf(heap, m) = StructOf(heap, last.node)

(***************************************************************************)
(* Properties of the lowered and of the normalized programs.              *)
(***************************************************************************)
\* Every statement of a statement list, nested ones included, in order.
RECURSIVE AllStmts(_, _)
AllStmts(h, stmts) ==
    IF stmts = <<>> THEN <<>>
    ELSE LET n == Head(stmts)
             inner == CASE h[n].k = "SplitStmt" -> AllStmts(h, Flatten(h[n].branches))
                        [] h[n].k = "LoopStmt" -> AllStmts(h, h[n].stmts)
                        [] OTHER -> <<>>
         IN <<n>> \o inner \o AllStmts(h, Tail(stmts))

Count(seq, x) == Cardinality({i \in DOMAIN seq : seq[i] = x})

\* The expression nodes below an expression, itself included.
RECURSIVE SubExprs(_, _)
SubExprs(h, e) ==
    {e} \cup CASE h[e].k = "BinExpr" -> SubExprs(h, h[e].lhs) \cup SubExprs(h, h[e].rhs)
               [] h[e].k = "UnExpr" -> SubExprs(h, h[e].expr)
               [] OTHER -> {}

\* Right-hand sides, assumption expressions and their operands at any depth.
ExprsOf(h, stmts) ==
    LET all == AllStmts(h, stmts) IN
    UNION {IF h[all[j]].k \in {"AssignStmt", "AssumeStmt"}
           THEN SubExprs(h, h[all[j]].expr) ELSE {} : j \in DOMAIN all}

\* The statements of program i that come from the subprogram's statements:
\* those after the ones of its declarations.
DeclStmts(subp) ==
    Len(transform_decls(gen_ir_state(<<>>, EmptyEs, subp), subp.decls).out)
BodyOf(i) == SubSeq(progs[i].stmts, DeclStmts(unit[i]) + 1, Len(progs[i].stmts))
LastOf(seq) == seq[Len(seq)]

(***************************************************************************)
(* A semantics of the IR, to enumerate feasible paths: the value of an    *)
(* expression in an environment (variable name -> value), and the final   *)
(* environments of the paths of a statement list on which every Assume    *)
(* holds.                                                                  *)
(***************************************************************************)
TrueV == StrV(<<"True">>)
FalseV == StrV(<<"False">>)
Bv(b) == IF b THEN TrueV ELSE FalseV

SemBin(op, l, r) ==
    CASE op = "AND" -> Bv(l = TrueV /\ r = TrueV)
      [] op = "OR" -> Bv(l = TrueV \/ r = TrueV)
      [] op = "EQ" -> Bv(l = r)
      [] op = "NEQ" -> Bv(l # r)
      [] op = "LT" -> Bv(l.i < r.i)
      [] op = "LE" -> Bv(l.i <= r.i)
      [] op = "GT" -> Bv(l.i > r.i)
      [] op = "GE" -> Bv(l.i >= r.i)
      [] op = "PLUS" -> IntV(l.i + r.i)
      [] op = "MINUS" -> IntV(l.i - r.i)
      [] OTHER -> NoVal
SemUn(op, x) ==
    CASE op = "NOT" -> Bv(x # TrueV)
      [] op = "NEG" -> IntV(0 - x.i)
      [] OTHER -> NoVal

RECURSIVE SemExpr(_, _, _)
SemExpr(h, env, e) ==
    CASE h[e].k = "Lit" -> h[e].val
      [] h[e].k = "Identifier" ->
            IF h[h[e].var].name \in DOMAIN env THEN env[h[h[e].var].name] ELSE NoVal
      [] h[e].k = "BinExpr" ->
            SemBin(h[e].bin_op, SemExpr(h, env, h[e].lhs), SemExpr(h, env, h[e].rhs))
      [] h[e].k = "UnExpr" -> SemUn(h[e].un_op, SemExpr(h, env, h[e].expr))

RECURSIVE Paths(_, _, _)
RECURSIVE PathsOfBranches(_, _, _, _)
RECURSIVE PathsFrom(_, _, _)
Paths(h, stmts, env) ==
    IF stmts = <<>> THEN <<env>>
    ELSE LET n == Head(stmts) IN
         CASE h[n].k = "AssignStmt" ->
                Paths(h, Tail(stmts),
                      (h[h[h[n].id].var].name :> SemExpr(h, env, h[n].expr)) @@ env)
           [] h[n].k = "AssumeStmt" ->
                IF SemExpr(h, env, h[n].expr) = TrueV THEN Paths(h, Tail(stmts), env)
                ELSE <<>>
           [] h[n].k = "SplitStmt" -> PathsOfBranches(h, h[n].branches, Tail(stmts), env)
           [] OTHER -> Paths(h, Tail(stmts), env)
\* The paths through each branch in turn, continued by the statements `rest`.
PathsOfBranches(h, branches, rest, env) ==
    IF branches = <<>> THEN <<>>
    ELSE PathsFrom(h, rest, Paths(h, Head(branches), env))
         \o PathsOfBranches(h, Tail(branches), rest, env)
PathsFrom(h, rest, envs) ==
    IF envs = <<>> THEN <<>>
    ELSE Paths(h, rest, Head(envs)) \o PathsFrom(h, rest, Tail(envs))

\* The value of a source expression in an environment, by Ada's rules.
RECURSIVE SrcEval(_, _)
SrcEval(e, env) ==
    CASE e.k = "ParenExpr" -> SrcEval(e.expr, env)
      [] e.k = "IntLiteral" -> IntV(e.tok)
      [] e.k = "Identifier" ->
            IF e.ref = "ObjectDecl" THEN env[<<e.text>>] ELSE StrV(<<e.text>>)
      [] e.k = "UnOp" ->
            IF e.op = "OpNot" THEN Bv(SrcEval(e.expr, env) # TrueV)
            ELSE IntV(0 - SrcEval(e.expr, env).i)
      [] e.k = "IfExpr" ->
            IF SrcEval(e.cond, env) = TrueV THEN SrcEval(e.then_expr, env)
            ELSE SrcEval(e.else_expr, env)
      [] e.k = "BinOp" ->
            LET l == SrcEval(e.left, env)
                r == SrcEval(e.right, env)
            IN CASE e.op = "OpAndThen" -> IF l = TrueV THEN r ELSE FalseV
                 [] e.op = "OpOrElse" -> IF l = TrueV THEN TrueV ELSE r
                 [] e.op = "OpAnd" -> Bv(l = TrueV /\ r = TrueV)
                 [] e.op = "OpOr" -> Bv(l = TrueV \/ r = TrueV)
                 [] e.op = "OpLt" -> Bv(l.i < r.i)
                 [] e.op = "OpGt" -> Bv(l.i > r.i)
                 [] e.op = "OpEq" -> Bv(l = r)
                 [] e.op = "OpPlus" -> IntV(l.i + r.i)
                 [] e.op = "OpMinus" -> IntV(l.i - r.i)

\* The environments: a value for each declared variable.
Envs ==
    {(<<"X">> :> IntV(x)) @@ (<<"Y">> :> IntV(0)) @@ (<<"B">> :> b) @@ (<<"C">> :> c) :
        x \in 0 .. MaxInt, b \in {TrueV, FalseV}, c \in {TrueV, FalseV}}

\* C1: in every lowered program, each Goto targets a Label statement that
\* occurs exactly once in that program, and no Label statement occurs twice.
C1_GotoTargetsOneLabel ==
    \A i \in DOMAIN progs :
        LET all == AllStmts(heap, progs[i].stmts) IN
        \A j \in DOMAIN all :
            /\ heap[all[j]].k = "GotoStmt" =>
                   /\ heap[heap[all[j]].label].k = "LabelStmt"
                   /\ Count(all, heap[all[j]].label) = 1
            /\ heap[all[j]].k = "LabelStmt" => Count(all, all[j]) = 1

\* A returned program with a Goto to a source label and a Goto to the exit
\* label of a loop.
C1_Witness ==
    /\ pc = "returned"
    /\ \E i \in DOMAIN progs :
           LET all == AllStmts(heap, progs[i].stmts)
               targets == {heap[heap[all[j]].label].name[1] :
                              j \in {l \in DOMAIN all : heap[all[l]].k = "GotoStmt"}}
           IN {"L", "exit_loop"} \subseteq targets

\* C2: every Split statement of a lowered program has at least 2 branches.
C2_SplitHasTwoBranches ==
    \A i \in DOMAIN progs :
        LET all == AllStmts(heap, progs[i].stmts) IN
        \A j \in DOMAIN all :
            heap[all[j]].k = "SplitStmt" => Len(heap[all[j]].branches) >= 2

\* B := L op R with op a short-circuit operator, as the only statement.
IsShortCircuitAssign(subp) ==
    /\ Len(subp.stmts) = 1
    /\ subp.stmts[1].k = "AssignStmt"
    /\ subp.stmts[1].expr.k = "BinOp"
    /\ subp.stmts[1].expr.op \in ShortCircuitOps

\* The synthetic temporary that program i assigns to B.
TmpOf(i) == heap[heap[heap[LastOf(BodyOf(i))].expr].var].name

\* C3: for `and then` and `or else` and every value of the operands, the
\* generated split/assume tree has exactly one feasible path, and that path
\* assigns the short-circuit truth table value to the synthetic temporary.
C3_ShortCircuitTruthTable ==
    \A i \in DOMAIN progs :
        IsShortCircuitAssign(unit[i]) =>
            \A env \in Envs :
                LET ps == Paths(heap, BodyOf(i), env) IN
                /\ Len(ps) = 1
                /\ TmpOf(i) \in DOMAIN ps[1]
                /\ ps[1][TmpOf(i)] = SrcEval(unit[i].stmts[1].expr, env)

\* B := B and then C lowered: the temporary is True on the path of
\* (True, True) and False on the path of (True, False).
C3_Witness ==
    \E i \in DOMAIN progs :
        /\ IsShortCircuitAssign(unit[i])
        /\ unit[i].stmts[1].expr = A_BinOp("OpAndThen", RB, RC, bool_type)
        /\ \E e1, e2 \in Envs :
               /\ e1[<<"B">>] = TrueV /\ e1[<<"C">>] = TrueV
               /\ e2[<<"B">>] = TrueV /\ e2[<<"C">>] = FalseV
               /\ Paths(heap, BodyOf(i), e1)[1][TmpOf(i)] = TrueV
               /\ Paths(heap, BodyOf(i), e2)[1][TmpOf(i)] = FalseV

\* case X is ... when others => ... end case, as the only statement.
IsCaseWithOthers(subp) ==
    /\ Len(subp.stmts) = 1
    /\ subp.stmts[1].k = "CaseStmt"
    /\ subp.stmts[1].expr = RX
    /\ \E a \in DOMAIN subp.stmts[1].alts : IsOthers(subp.stmts[1].alts[a])

\* The integers that the choices of a case alternative denote.
ChoiceSet(c) ==
    CASE c.k = "IntLiteral" -> {c.tok}
      [] c.k = "BinOp" -> c.left.tok .. c.right.tok
      [] OTHER -> {}
LabelSet(alt) == UNION {ChoiceSet(alt.choices[j]) : j \in DOMAIN alt.choices}
DisjointAlts(alts) ==
    \A a, b \in DOMAIN alts : a # b => LabelSet(alts[a]) \cap LabelSet(alts[b]) = {}

\* The selector values tried: those of the choices and one beyond each end.
SelectorVals == (0 - 1) .. (MaxInt + 1)

\* The guards of the split that ends program i hold for selector value x.
GuardsHolding(i, x) ==
    LET split == heap[LastOf(BodyOf(i))]
        env == (<<"X">> :> IntV(x))
    IN {b \in DOMAIN split.branches :
           SemExpr(heap, env, heap[split.branches[b][1]].expr) = TrueV}

C5_NoUniversalTypeHint ==
    \A i \in DOMAIN progs :
        progs[i].runs >= 1 =>
            \A e \in ExprsOf(heap, progs[i].stmts) :
                heap[e].type_hint \notin {universal_int, universal_real}

\* C6: a second run of the normalizer leaves the tree of a program
\* structurally as the first run left it.
C6_NormalizerIdempotent ==
    \A i \in DOMAIN progs :
        progs[i].runs >= 2 => TreesOf(heap, progs[i].stmts) = progs[i].before

\* A program that the first run changed (its tree is not the lowered one)
\* and that has been normalized again.
C6_Witness ==
    \E i \in DOMAIN progs :
        /\ Len(unit) = 1
        /\ progs[i].runs >= 2
        /\ LET r == gen_ir(<<>>, EmptyEs, unit[i])
           IN TreesOf(heap, progs[i].stmts) # TreesOf(r.st.heap, r.stmts)

\* if c then T else E end if, as the only statement.
IsIf(subp) ==
    /\ Len(subp.stmts) = 1
    /\ subp.stmts[1].k = "IfStmt"
    /\ subp.stmts[1].alternatives = <<>>

\* The parts of the lowering of an if statement, each lowered as the
\* frontend orders them: T, then E, then c.
ThenOf(subp) ==
    transform_stmts(transform_decls(gen_ir_state(<<>>, EmptyEs, subp), subp.decls).st,
                    subp.stmts[1].then_stmts)
ElseOf(subp) == transform_stmts(ThenOf(subp).st, subp.stmts[1].else_stmts)
CondOf(subp) == transform_expr(ElseOf(subp).st, subp.stmts[1].cond)

\* C10: an if statement lowers to the pre-statements of its condition c,
\* once and before the split, then one Split of two branches: Assume(c)
\* followed by the lowered T, and Assume(not c) followed by the lowered E.
C10_IfLowering ==
    \A i \in DOMAIN progs :
        (IsIf(unit[i]) /\ progs[i].runs = 0) =>
            LET body == BodyOf(i)
                t == ThenOf(unit[i])
                e == ElseOf(unit[i])
                c == CondOf(unit[i])
                split == heap[LastOf(body)]
                pre == SubSeq(body, 1, Len(body) - 1)
            IN /\ Len(body) = Len(c.pre) + 1
               /\ TreesOf(heap, pre) = TreesOf(c.st.heap, c.pre)
               /\ split.k = "SplitStmt"
               /\ Len(split.branches) = 2
               /\ TreeOf(heap, split.branches[1][1]) =
                      AssumeStmt(TreeOf(c.st.heap, c.e), NoPurpose)
               /\ TreeOf(heap, split.branches[2][1]) =
                      AssumeStmt(UnExpr("NOT", TreeOf(c.st.heap, c.e),
                                        c.st.heap[c.e].type_hint), NoPurpose)
               /\ heap[heap[split.branches[2][1]].expr].expr = heap[split.branches[1][1]].expr
               /\ TreesOf(heap, Tail(split.branches[1])) = TreesOf(t.st.heap, t.out)
               /\ TreesOf(heap, Tail(split.branches[2])) = TreesOf(e.st.heap, e.out)
               /\ \A p \in DOMAIN pre :
                      Count(AllStmts(heap, Flatten(split.branches)), pre[p]) = 0

\* An if statement whose condition has pre-statements and whose two
\* branches have statements, lowered.
C10_Witness ==
    \E i \in DOMAIN progs :
        /\ IsIf(unit[i])
        /\ progs[i].runs = 0
        /\ unit[i].stmts[1].cond.k = "BinOp"
        /\ unit[i].stmts[1].cond.op \in ShortCircuitOps
        /\ unit[i].stmts[1].then_stmts # <<>>
        /\ unit[i].stmts[1].else_stmts # <<>>
        /\ Len(BodyOf(i)) > 1

(***************************************************************************)
(* Properties of the lowering of one construct, stated against the tree   *)
(* that the construct's source form prescribes.                           *)
(***************************************************************************)
\* The lowering state after the declarations of a subprogram.
AfterDecls(subp) == transform_decls(gen_ir_state(<<>>, EmptyEs, subp), subp.decls).st

\* _gen_ir raised while lowering subprogram i of the unit.
LoweringFailed(i) == pc = "failed" /\ Len(progs) = i - 1 /\ Len(progs) < Len(unit)

\* case X is ... end case as the only statement, its choices integer
\* literals and ranges of them, "others" alone and last if present.
IsIntChoice(c) ==
    \/ c.k = "IntLiteral"
    \/ c.k = "BinOp" /\ c.op = "OpDoubleDot" /\ c.left.k = "IntLiteral"
                     /\ c.right.k = "IntLiteral"
IsIntCase(subp) ==
    /\ Len(subp.stmts) = 1
    /\ subp.stmts[1].k = "CaseStmt"
    /\ subp.stmts[1].expr = RX
    /\ subp.stmts[1].alts # <<>>
    /\ \A a \in DOMAIN subp.stmts[1].alts :
          LET alt == subp.stmts[1].alts[a] IN
          IF IsOthers(alt) THEN a = Len(subp.stmts[1].alts) /\ Len(alt.choices) = 1
          ELSE \A c \in DOMAIN alt.choices : IsIntChoice(alt.choices[c])

\* The guard that the source form of a choice prescribes, as a tree.
GuardOfChoice(sel, c) ==
    IF c.k = "IntLiteral" THEN BinExpr(sel, "EQ", Lit(IntV(c.tok), int_type), bool_type)
    ELSE BinExpr(BinExpr(sel, "GE", Lit(IntV(c.left.tok), int_type), bool_type),
                 "AND",
                 BinExpr(sel, "LE", Lit(IntV(c.right.tok), int_type), bool_type),
                 bool_type)

\* The left fold of a non-empty sequence of trees with OR.
RECURSIVE FoldOr(_, _)
FoldOr(acc, trees) ==
    IF trees = <<>> THEN acc
    ELSE FoldOr(BinExpr(acc, "OR", Head(trees), bool_type), Tail(trees))

GuardOfAlt(sel, alt) ==
    LET singles == [c \in DOMAIN alt.choices |-> GuardOfChoice(sel, alt.choices[c])]
    IN FoldOr(Head(singles), Tail(singles))

\* The guard of branch b of the case statement: of alternative b, or the
\* negation of the fold of the guards of the alternatives before "others".
GuardOfBranch(sel, alts, b) ==
    IF IsOthers(alts[b])
    THEN LET gs == [a \in 1 .. Len(alts) - 1 |-> GuardOfAlt(sel, alts[a])]
         IN UnExpr("NOT", FoldOr(Head(gs), Tail(gs)), bool_type)
    ELSE GuardOfAlt(sel, alts[b])

\* C11: a case statement is lowered, and its lowering is the selector's
\* pre-statements followed by one Split with one branch per alternative in
\* source order, branch b being Assume(guard of alternative b) followed by
\* the alternative's lowered statements, with the guards built from
\* selector = v, selector >= lo AND selector <= hi, their left fold with OR,
\* and for "others" the negation of the fold of all other guards.
C11_CaseLowering ==
    \A i \in DOMAIN unit :
        IsIntCase(unit[i]) =>
            /\ ~LoweringFailed(i)
            /\ (i \in DOMAIN progs /\ progs[i].runs = 0) =>
                  LET alts == unit[i].stmts[1].alts
                      body == BodyOf(i)
                      s == transform_expr(AfterDecls(unit[i]), unit[i].stmts[1].expr)
                      sel == TreeOf(s.st.heap, s.e)
                      split == heap[LastOf(body)]
                  IN /\ Len(body) = Len(s.pre) + 1
                     /\ split.k = "SplitStmt"
                     /\ Len(split.branches) = Len(alts)
                     /\ \A b \in DOMAIN alts :
                           /\ TreeOf(heap, split.branches[b][1]) =
                                  AssumeStmt(GuardOfBranch(sel, alts, b), NoPurpose)
                           /\ LET t == transform_stmts(AfterDecls(unit[i]), alts[b].stmts)
                              IN TreesOf(heap, Tail(split.branches[b])) =
                                     TreesOf(t.st.heap, t.out)

\* The statements of program i that declaration d of its subprogram emitted.
SegmentOf(i, d) ==
    LET s0 == gen_ir_state(<<>>, EmptyEs, unit[i])
        from == Len(transform_decls(s0, SubSeq(unit[i].decls, 1, d - 1)).out)
        to == Len(transform_decls(s0, SubSeq(unit[i].decls, 1, d)).out)
    IN SubSeq(progs[i].stmts, from + 1, to)

\* The lowering of the initializer of declaration d, its names declared.
InitializerOf(subp, d) ==
    LET before == transform_decls(gen_ir_state(<<>>, EmptyEs, subp),
                                  SubSeq(subp.decls, 1, d - 1)).st
    IN transform_expr(declare_ids(before, subp.decls[d], subp.decls[d].ids),
                      subp.decls[d].default_expr)

\* Statement n of program i reads or assigns the variable named `name`.
TargetName(n) == heap[heap[heap[n].id].var].name

\* C12: an object declaration of n names without initializer emits exactly
\* n Reads, one per name in declaration order; with an initializer, the
\* initializer's pre-statements once, then exactly n Assigns, one per name,
\* all of the one lowered initializer expression; type and named-number
\* declarations emit nothing.
C12_ObjectDeclLowering ==
    \A i \in DOMAIN progs :
        progs[i].runs = 0 =>
            \A d \in DOMAIN unit[i].decls :
                LET decl == unit[i].decls[d]
                    seg == SegmentOf(i, d)
                IN CASE decl.k \in {"TypeDecl", "NumberDecl"} -> seg = <<>>
                     [] decl.k = "ObjectDecl" /\ decl.default_expr = None ->
                            /\ Len(seg) = Len(decl.ids)
                            /\ \A j \in DOMAIN seg :
                                  /\ heap[seg[j]].k = "ReadStmt"
                                  /\ TargetName(seg[j]) = str_of(decl.ids[j])
                     [] decl.k = "ObjectDecl" /\ decl.default_expr # None ->
                            LET init == InitializerOf(unit[i], d)
                                np == Len(init.pre)
                            IN /\ Len(seg) = np + Len(decl.ids)
                               /\ TreesOf(heap, SubSeq(seg, 1, np)) =
                                      TreesOf(init.st.heap, init.pre)
                               /\ \A j \in DOMAIN decl.ids :
                                     /\ heap[seg[np + j]].k = "AssignStmt"
                                     /\ TargetName(seg[np + j]) = str_of(decl.ids[j])
                                     /\ heap[seg[np + j]].expr = heap[seg[np + 1]].expr
                                     /\ TreeOf(heap, heap[seg[np + j]].expr) =
                                            TreeOf(init.st.heap, init.e)
                     [] OTHER -> TRUE

\* A lowered subprogram that declares two names without initializer and two
\* names with an initializer that has pre-statements.
C12_Witness ==
    \E i \in DOMAIN progs :
        /\ progs[i].runs = 0
        /\ \E d \in DOMAIN unit[i].decls :
              /\ unit[i].decls[d].k = "ObjectDecl"
              /\ unit[i].decls[d].default_expr = None
              /\ Len(SegmentOf(i, d)) = 2
        /\ \E d \in DOMAIN unit[i].decls :
              /\ unit[i].decls[d].k = "ObjectDecl"
              /\ unit[i].decls[d].default_expr # None
              /\ Len(unit[i].decls[d].ids) = 2
              /\ Len(SegmentOf(i, d)) > 2
        /\ \E d \in DOMAIN unit[i].decls : unit[i].decls[d].k = "NumberDecl"

\* A loop or a while loop as the only statement.
IsLoop(subp, kind) == Len(subp.stmts) = 1 /\ subp.stmts[1].k = kind

\* The parts of the lowering of a loop, each lowered as the frontend orders
\* them: the condition, then the body with the loop on the loop stack.
LoopCondOf(subp) == transform_expr(AfterDecls(subp), subp.stmts[1].cond)
WhileBodyOf(subp) ==
    LET c == LoopCondOf(subp)
    IN transform_stmts(enter_loop(Alloc(c.st, UnExpr("NOT", c.e, c.st.heap[c.e].type_hint)),
                                  subp.stmts[1], "exit_while_loop"),
                       subp.stmts[1].stmts)
LoopBodyOf(subp) ==
    transform_stmts(enter_loop(AfterDecls(subp), subp.stmts[1], "exit_loop"),
                    subp.stmts[1].stmts)

\* Statement n is the Label statement of a name generated from `base`.
IsExitLabel(n, base) == heap[n].k = "LabelStmt" /\ heap[n].name[1] = base

\* The tree of Assume(not c), c the tree of the condition.
AssumeNot(c) == AssumeStmt(UnExpr("NOT", TreeOf(c.st.heap, c.e), c.st.heap[c.e].type_hint),
                           NoPurpose)

\* C13 as stated: a while loop lowers to Loop(Assume(c), lowered B),
\* Assume(not c), exit label; a plain loop lowers to Loop(lowered B) alone.
C13_LoopLoweringAsStated ==
    \A i \in DOMAIN progs :
        progs[i].runs = 0 =>
            /\ IsLoop(unit[i], "WhileLoopStmt") =>
                  LET body == BodyOf(i)
                      c == LoopCondOf(unit[i])
                      b == WhileBodyOf(unit[i])
                  IN /\ Len(body) = 3
                     /\ heap[body[1]].k = "LoopStmt"
                     /\ TreesOf(heap, heap[body[1]].stmts) =
                            <<AssumeStmt(TreeOf(c.st.heap, c.e), NoPurpose)>>
                                \o TreesOf(b.st.heap, b.out)
                     /\ TreeOf(heap, body[2]) = AssumeNot(c)
                     /\ IsExitLabel(body[3], "exit_while_loop")
            /\ IsLoop(unit[i], "LoopStmt") =>
                  LET body == BodyOf(i)
                      b == LoopBodyOf(unit[i])
                  IN /\ Len(body) = 1
                     /\ heap[body[1]].k = "LoopStmt"
                     /\ TreesOf(heap, heap[body[1]].stmts) = TreesOf(b.st.heap, b.out)

\* C13, amended: a while loop lowers to Loop(pre-statements of c,
\* Assume(c), lowered B), then Assume(not c) of the same condition node,
\* then the loop's exit label; a plain loop lowers to Loop(lowered B)
\* followed by the loop's exit label.
C13_LoopLowering ==
    \A i \in DOMAIN progs :
        progs[i].runs = 0 =>
            /\ IsLoop(unit[i], "WhileLoopStmt") =>
                  LET body == BodyOf(i)
                      c == LoopCondOf(unit[i])
                      b == WhileBodyOf(unit[i])
                  IN /\ Len(body) = 3
                     /\ heap[body[1]].k = "LoopStmt"
                     /\ TreesOf(heap, heap[body[1]].stmts) =
                            TreesOf(c.st.heap, c.pre)
                                \o <<AssumeStmt(TreeOf(c.st.heap, c.e), NoPurpose)>>
                                \o TreesOf(b.st.heap, b.out)
                     /\ TreeOf(heap, body[2]) = AssumeNot(c)
                     /\ heap[heap[body[2]].expr].expr =
                            heap[heap[body[1]].stmts[Len(c.pre) + 1]].expr
                     /\ IsExitLabel(body[3], "exit_while_loop")
            /\ IsLoop(unit[i], "LoopStmt") =>
                  LET body == BodyOf(i)
                      b == LoopBodyOf(unit[i])
                  IN /\ Len(body) = 2
                     /\ heap[body[1]].k = "LoopStmt"
                     /\ TreesOf(heap, heap[body[1]].stmts) = TreesOf(b.st.heap, b.out)
                     /\ IsExitLabel(body[2], "exit_loop")

\* A lowered while loop whose condition has pre-statements and whose body
\* has statements.
C13_Witness ==
    \E i \in DOMAIN progs :
        /\ progs[i].runs = 0
        /\ IsLoop(unit[i], "WhileLoopStmt")
        /\ Len(LoopCondOf(unit[i]).pre) > 0
        /\ Len(heap[BodyOf(i)[1]].stmts) > Len(LoopCondOf(unit[i]).pre) + 1

(***************************************************************************)
(* Exits.  Of the source: for every exit statement in source order, how   *)
(* many lowered loops lie between it and the loop it leaves (0: it leaves *)
(* the innermost one).  Of the IR: the same for every Goto to the exit    *)
(* label of a loop, the exit label of a Loop statement being the Label    *)
(* statement that follows it in its statement list.                       *)
(***************************************************************************)
\* The loop an exit statement leaves, as an index of the stack of source
\* loops around it: the top, or the loop that carries the name.
ExitTarget(stack, s) ==
    IF s.loop_name = None THEN Len(stack)
    ELSE CHOOSE t \in DOMAIN stack : stack[t].nid = s.loop_name.loop

\* The exit leaves a for loop: there is no loop in the IR to leave.
LeavesForLoop == 0 - 2

ExitDepth(stack, s) ==
    LET t == ExitTarget(stack, s) IN
    IF stack[t].k = "ForLoopStmt" THEN LeavesForLoop
    ELSE Cardinality({j \in DOMAIN stack : j > t /\ stack[j].k # "ForLoopStmt"})

RECURSIVE StmtsOfAlternatives(_)
StmtsOfAlternatives(alternatives) ==
    IF alternatives = <<>> THEN <<>>
    ELSE Head(alternatives).stmts \o StmtsOfAlternatives(Tail(alternatives))

RECURSIVE SrcExits(_, _)
SrcExits(stmts, stack) ==
    IF stmts = <<>> THEN <<>>
    ELSE LET s == Head(stmts)
             here ==
                CASE s.k \in {"LoopStmt", "WhileLoopStmt", "ForLoopStmt"} ->
                        SrcExits(s.stmts, Append(stack, [nid |-> s.nid, k |-> s.k]))
                  [] s.k = "NamedStmt" -> SrcExits(<<s.stmt>>, stack)
                  [] s.k = "IfStmt" ->
                        SrcExits(s.then_stmts \o StmtsOfAlternatives(s.alternatives)
                                     \o s.else_stmts, stack)
                  [] s.k = "ExitStmt" -> <<ExitDepth(stack, s)>>
                  [] OTHER -> <<>>
         IN here \o SrcExits(Tail(stmts), stack)

\* The exit label of the Loop statement at position p of a statement list.
ExitLabelAt(h, stmts, p) ==
    IF p + 1 \in DOMAIN stmts /\ h[stmts[p + 1]].k = "LabelStmt" THEN stmts[p + 1]
    ELSE IF p + 2 \in DOMAIN stmts /\ h[stmts[p + 2]].k = "LabelStmt" THEN stmts[p + 2]
    ELSE 0

\* A Goto to a label that the frontend generated for a loop.
IsExitGoto(h, n) == h[n].k = "GotoStmt" /\ h[h[n].label].name[1] # "L"

\* The number of entries of the stack of exit labels above label l.
GotoDepth(labels, l) ==
    IF \E j \in DOMAIN labels : labels[j] = l
    THEN Len(labels) - (CHOOSE j \in DOMAIN labels : labels[j] = l)
    ELSE 0 - 1

RECURSIVE IrExits(_, _, _, _)
IrExits(h, stmts, p, labels) ==
    IF p > Len(stmts) THEN <<>>
    ELSE LET n == stmts[p]
             here ==
                CASE h[n].k = "LoopStmt" ->
                        IrExits(h, h[n].stmts, 1, Append(labels, ExitLabelAt(h, stmts, p)))
                  [] h[n].k = "SplitStmt" -> IrExits(h, Flatten(h[n].branches), 1, labels)
                  [] IsExitGoto(h, n) -> <<GotoDepth(labels, h[n].label)>>
                  [] OTHER -> <<>>
         IN here \o IrExits(h, stmts, p + 1, labels)

\* Lowering each statement of a list, and each statement inside its loops,
\* leaves loop_stack as it found it.
RECURSIVE StackKept(_, _)
RECURSIVE InnerStackKept(_, _)
StackKept(st, stmts) ==
    \/ stmts = <<>>
    \/ \E r \in {transform_stmt(st, Head(stmts))} :
          \/ r.st.exc # "none"
          \/ /\ r.st.loop_stack = st.loop_stack
             /\ InnerStackKept(st, Head(stmts))
             /\ StackKept(r.st, Tail(stmts))
InnerStackKept(st, s) ==
    CASE s.k = "LoopStmt" -> StackKept(enter_loop(st, s, "exit_loop"), s.stmts)
      [] s.k = "WhileLoopStmt" ->
            \E c \in {transform_expr(st, s.cond)} :
                StackKept(enter_loop(Alloc(c.st, UnExpr("NOT", c.e, c.st.heap[c.e].type_hint)),
                                     s, "exit_while_loop"), s.stmts)
      [] s.k = "NamedStmt" -> InnerStackKept(st, s.stmt)
      [] OTHER -> TRUE

\* C14: in a lowered program every exit statement of the source has its
\* Goto, in source order, to the exit label of the loop it leaves: the
\* innermost enclosing loop, or the enclosing loop that carries the name;
\* and lowering a statement leaves the loop-context stack as it was.
C14_ExitLeavesItsLoop ==
    \A i \in DOMAIN progs :
        progs[i].runs = 0 =>
            /\ IrExits(heap, BodyOf(i), 1, <<>>) = SrcExits(unit[i].stmts, <<>>)
            /\ StackKept(AfterDecls(unit[i]), unit[i].stmts)

(***************************************************************************)
(* Null checks.  A walk over a statement list that carries the facts that *)
(* hold on every path to the current statement: the prefix nodes that a   *)
(* DerefCheck assumption has checked, and the variables assigned.  A Loop *)
(* may run zero times, a Split takes one of its branches.                 *)
(***************************************************************************)
\* The dereferences in expression e whose prefix no fact covers.
Unchecked(h, e, facts) ==
    {d \in SubExprs(h, e) : h[d].k = "UnExpr" /\ h[d].un_op = "DEREF" /\ h[d].expr \notin facts}

\* The temporary that holds the prefix, if it has one, has been assigned.
PrefixReady(h, prefix, facts) ==
    (h[prefix].k = "Identifier" /\ h[h[prefix].var].purpose = SyntheticVariable)
        => h[prefix].var \in facts

\* Assume(prefix /= null), tagged DerefCheck(prefix).
IsNullCheck(h, n) ==
    /\ h[n].k = "AssumeStmt"
    /\ h[n].purpose.k = "DerefCheck"
    /\ h[h[n].expr].k = "BinExpr"
    /\ h[h[n].expr].bin_op = "NEQ"
    /\ h[h[n].expr].lhs = h[n].purpose.expr
    /\ h[h[h[n].expr].rhs] = Lit(NULL_LIT, h[h[n].purpose.expr].type_hint)

RECURSIVE Guarded(_, _, _)
Guarded(h, stmts, facts) ==
    IF stmts = <<>> THEN [ok |-> TRUE, facts |-> facts]
    ELSE LET n == Head(stmts)
             here ==
                CASE h[n].k = "AssumeStmt" /\ h[n].purpose.k = "DerefCheck" ->
                        [ok |-> /\ IsNullCheck(h, n)
                                /\ Unchecked(h, h[n].expr, facts) = {}
                                /\ PrefixReady(h, h[n].purpose.expr, facts),
                         facts |-> facts \cup {h[n].purpose.expr}]
                  [] h[n].k = "AssumeStmt" /\ h[n].purpose.k # "DerefCheck" ->
                        [ok |-> Unchecked(h, h[n].expr, facts) = {}, facts |-> facts]
                  [] h[n].k = "AssignStmt" ->
                        [ok |-> Unchecked(h, h[n].expr, facts) = {},
                         facts |-> facts \cup {h[h[n].id].var}]
                  [] h[n].k = "SplitStmt" ->
                        LET br == [b \in DOMAIN h[n].branches |->
                                      Guarded(h, h[n].branches[b], facts)]
                        IN [ok |-> \A b \in DOMAIN br : br[b].ok,
                            facts |-> {f \in UNION {br[b].facts : b \in DOMAIN br} :
                                          \A b \in DOMAIN br : f \in br[b].facts}]
                  [] h[n].k = "LoopStmt" ->
                        [ok |-> Guarded(h, h[n].stmts, facts).ok, facts |-> facts]
                  [] OTHER -> [ok |-> TRUE, facts |-> facts]
         IN IF here.ok THEN Guarded(h, Tail(stmts), here.facts)
            ELSE [ok |-> FALSE, facts |-> facts]

\* C15: on every path of a lowered program, a statement whose expression
\* holds a dereference p.all comes after an Assume(p /= null) tagged
\* DerefCheck(p), which itself comes after the pre-statements of p.
C15_DerefIsChecked ==
    \A i \in DOMAIN progs :
        progs[i].runs = 0 => Guarded(heap, progs[i].stmts, {}).ok

\* A statement list with a for loop in it, at any depth of loops and ifs.
RECURSIVE HasForLoop(_)
HasForLoop(stmts) ==
    \E j \in DOMAIN stmts :
        \/ stmts[j].k = "ForLoopStmt"
        \/ stmts[j].k \in {"LoopStmt", "WhileLoopStmt"} /\ HasForLoop(stmts[j].stmts)
        \/ stmts[j].k = "NamedStmt" /\ HasForLoop(<<stmts[j].stmt>>)
        \/ stmts[j].k = "IfStmt" /\ HasForLoop(stmts[j].then_stmts \o stmts[j].else_stmts)

\* C16: a subprogram whose body has a for loop is never lowered to a
\* program; its lowering ends with the unsupported-construct fault.
C16_ForLoopRejected ==
    \A i \in DOMAIN unit :
        HasForLoop(unit[i].stmts) =>
            /\ i \notin DOMAIN progs
            /\ LoweringFailed(i) => fault = "NotImplementedError"

\* Subprogram j lowers without a fault.
Lowers(j) == gen_ir(<<>>, EmptyEs, unit[j]).st.exc = "none"

\* extract_programs has returned, the program of a subprogram among the
\* normalized programs it returned.
Returned(j) == pc = "returned" /\ j \in DOMAIN progs /\ progs[j].runs >= 1

\* C17: when lowering subprogram i of a unit ends with a fault,
\* extract_programs still returns the normalized program of every other
\* subprogram of the unit that lowers without fault.  (pc = "failed" is
\* the end of the call: the exception has left extract_programs.)
C17_FaultAbortsOnlyItsSubprogram ==
    \A i \in DOMAIN unit :
        LoweringFailed(i) =>
            \A j \in DOMAIN unit \ {i} : Lowers(j) => Returned(j)

(***************************************************************************)
(* Variables.  A reference resolves to the pair of its declaration and    *)
(* of the declared name it denotes, whatever the case it is spelled in.   *)
(***************************************************************************)
Fold(text) == IF text = "x" THEN "X" ELSE text
PairOf(ref) == <<ref.decl, Fold(ref.text)>>

IsObjectRef(e) == e.k = "Identifier" /\ e.ref = "ObjectDecl"

\* An expression of literals, references to declared objects, and operators
\* that the frontend has a symbol for.
RECURSIVE IsPlain(_)
IsPlain(e) ==
    \/ e.k = "IntLiteral"
    \/ IsObjectRef(e)
    \/ /\ e.k = "BinOp"
       /\ e.op \in ShortCircuitOps \/ <<e.op, 2>> \in DOMAIN lal_op_type_2_symbol
       /\ IsPlain(e.left)
       /\ IsPlain(e.right)

\* dest := e as the only statement, e plain.
IsAssign(subp) ==
    /\ Len(subp.stmts) = 1
    /\ subp.stmts[1].k = "AssignStmt"
    /\ IsPlain(subp.stmts[1].expr)
    /\ \A d \in DOMAIN subp.decls : subp.decls[d].k \in {"TypeDecl", "NumberDecl", "ObjectDecl"}

\* The Identifier nodes of a program: targets, and those in expressions.
IdentsOf(h, stmts) ==
    LET all == AllStmts(h, stmts) IN
    {h[all[j]].id : j \in {l \in DOMAIN all : h[all[l]].k \in {"AssignStmt", "ReadStmt"}}}
        \cup {e \in ExprsOf(h, stmts) : h[e].k = "Identifier"}

\* C18: in the lowering of a subprogram, the declared (site, name) pairs
\* have one Variable each, created by the declaration and named after it,
\* no two pairs the same one; every identifier of the program that is not
\* a temporary holds one of them; and the target and a plain right-hand
\* side of an assignment hold the Variable of the pair they resolve to.
C18_OneVariablePerDeclaredName ==
    IsAssign(unit[1]) =>
        /\ ~(LoweringFailed(1) /\ fault = "KeyError")
        /\ (1 \in DOMAIN progs /\ progs[1].runs = 0) =>
              LET vd == AfterDecls(unit[1]).var_decls
                  assign == heap[LastOf(progs[1].stmts)]
                  src == unit[1].stmts[1]
              IN /\ \A p, q \in DOMAIN vd : p # q => vd[p] # vd[q]
                 /\ \A p \in DOMAIN vd :
                       heap[vd[p]].k = "Variable" /\ heap[vd[p]].name = str_of(p[2])
                 /\ \A d \in DOMAIN unit[1].decls :
                       unit[1].decls[d].k = "ObjectDecl" =>
                           \A n \in DOMAIN unit[1].decls[d].ids :
                               <<unit[1].decls[d].nid, unit[1].decls[d].ids[n]>> \in DOMAIN vd
                 /\ \A id \in IdentsOf(heap, progs[1].stmts) :
                       heap[heap[id].var].purpose = NoPurpose =>
                           \E p \in DOMAIN vd : heap[id].var = vd[p]
                 /\ assign.k = "AssignStmt"
                 /\ heap[assign.id].var = vd[PairOf(src.dest)]
                 /\ IsObjectRef(src.expr) => heap[assign.expr].var = vd[PairOf(src.expr)]

(***************************************************************************)
(* Names.  The synthetic entities of a program are its temporaries        *)
(* (Variables tagged SyntheticVariable) and the exit labels of its loops. *)
(***************************************************************************)
VarsOf(i, purpose) ==
    {heap[id].var : id \in {n \in IdentsOf(heap, progs[i].stmts) :
                               heap[heap[n].var].purpose = purpose}}
ExitLabelsOf(i) ==
    LET all == AllStmts(heap, progs[i].stmts) IN
    {all[j] : j \in {l \in DOMAIN all : heap[all[l]].k = "LabelStmt"
                                          /\ heap[all[l]].name[1] # "L"}}
SyntheticOf(i) == VarsOf(i, SyntheticVariable) \cup ExitLabelsOf(i)

\* C19: in a lowered program the names of the synthetic entities are
\* pairwise distinct; of two entities of one base, the one created later
\* has the larger number; and no temporary has the name of a declared
\* variable of the subprogram.
C19_SyntheticNamesAreFresh ==
    \A i \in DOMAIN progs :
        progs[i].runs = 0 =>
            /\ \A a, b \in SyntheticOf(i) :
                  /\ a # b => heap[a].name # heap[b].name
                  /\ (a < b /\ heap[a].name[1] = heap[b].name[1]) =>
                         heap[a].name[2] < heap[b].name[2]
            /\ \A t \in VarsOf(i, SyntheticVariable) :
                  \A d \in DOMAIN unit[i].decls :
                      unit[i].decls[d].k = "ObjectDecl" =>
                          \A n \in DOMAIN unit[i].decls[d].ids :
                              heap[t].name # str_of(unit[i].decls[d].ids[n])

(***************************************************************************)
(* Conditional evaluation.  The cases: the last statement of a subprogram *)
(* is an assignment of `L and then R`, `L or else R` or                    *)
(* `(if C then A else B)`.  Its lowering ends with the pre-statements of  *)
(* L (of C), one Split, and the assignment.                                *)
(***************************************************************************)
IsCondAssign(subp, kinds) ==
    /\ subp.stmts # <<>>
    /\ LastOf(subp.stmts).k = "AssignStmt"
    /\ LastOf(subp.stmts).expr.k \in kinds
    /\ LastOf(subp.stmts).expr.k = "BinOp" => LastOf(subp.stmts).expr.op \in ShortCircuitOps

\* The state in which the last statement of the subprogram is lowered.
BeforeLast(subp) ==
    transform_stmts(AfterDecls(subp), SubSeq(subp.stmts, 1, Len(subp.stmts) - 1)).st

\* The operands of the expression of the last statement, each lowered as
\* the frontend orders them: the temporary, then R and L (A, B and C).
RightOf(subp) ==
    LET e == LastOf(subp.stmts).expr
    IN transform_expr(short_circuit_res(BeforeLast(subp), e.type).st, e.right)
LeftOf(subp) ==
    LET e == LastOf(subp.stmts).expr
        r == short_circuit_res(BeforeLast(subp), e.type)
    IN transform_expr(gen_split_stmt(r.st, e.right, <<r.res_eq_true>>, <<r.res_eq_false>>).st,
                      e.left)
ThenExprOf(subp) ==
    LET e == LastOf(subp.stmts).expr
    IN transform_expr(if_expr_tmp(BeforeLast(subp), e.type).st, e.then_expr)
ElseExprOf(subp) == transform_expr(ThenExprOf(subp).st, LastOf(subp.stmts).expr.else_expr)
CondExprOf(subp) == transform_expr(ElseExprOf(subp).st, LastOf(subp.stmts).expr.cond)

\* The tree of Assume(c), c the lowered condition.
AssumeOf(c) == AssumeStmt(TreeOf(c.st.heap, c.e), NoPurpose)

\* How often statement node n stands in the statement list, at any depth.
Occurrences(n, stmts) ==
    LET all == AllStmts(heap, stmts) IN Cardinality({j \in DOMAIN all : all[j] = n})

\* The body ends with the pre-statements `before`, one Split and one more
\* statement.  The branch of the Split that starts with `guard` continues
\* with the pre-statements `pre` and one more statement, the other branch
\* is its head followed by `other` and one more statement.  A node of
\* `pre` stands nowhere else in the body.
OnlyUnder(body, before, pre, guard, other) ==
    LET split == heap[body[Len(body) - 1]] IN
    /\ Len(body) >= Len(before) + 2
    /\ TreesOf(heap, SubSeq(body, Len(body) - Len(before) - 1, Len(body) - 2)) = before
    /\ split.k = "SplitStmt"
    /\ Len(split.branches) = 2
    /\ \E b \in 1 .. 2 :
          /\ TreeOf(heap, Head(split.branches[b])) = guard
          /\ TreeOf(heap, Head(split.branches[3 - b])) # guard
          /\ Len(split.branches[b]) = Len(pre) + 2
          /\ TreesOf(heap, SubSeq(split.branches[b], 2, Len(pre) + 1)) = pre
          /\ Len(split.branches[3 - b]) = Len(other) + 2
          /\ TreesOf(heap, SubSeq(split.branches[3 - b], 2, Len(other) + 1)) = other
          /\ \A k \in 2 .. Len(pre) + 1 :
                Occurrences(split.branches[b][k], body) = 1

\* C20: the pre-statements of a conditionally evaluated operand stay in
\* its branch.  For `L and then R` those of R stand only in the branch
\* that starts with Assume(L), for `L or else R` only in the branch that
\* starts with Assume(not L); for `(if C then A else B)` those of A stand
\* only in the branch that starts with Assume(C) and those of B only in
\* the branch that starts with Assume(not C).
C20_PreStmtsStayInBranch ==
    \A i \in DOMAIN progs :
        progs[i].runs = 0 =>
            /\ IsCondAssign(unit[i], {"BinOp"}) =>
                  LET r == RightOf(unit[i])
                      l == LeftOf(unit[i])
                  IN OnlyUnder(BodyOf(i), TreesOf(l.st.heap, l.pre),
                               TreesOf(r.st.heap, r.pre),
                               IF LastOf(unit[i].stmts).expr.op = "OpAndThen"
                               THEN AssumeOf(l) ELSE AssumeNot(l),
                               <<>>)
            /\ IsCondAssign(unit[i], {"IfExpr"}) =>
                  LET a == ThenExprOf(unit[i])
                      b == ElseExprOf(unit[i])
                      c == CondExprOf(unit[i])
                  IN /\ OnlyUnder(BodyOf(i), TreesOf(c.st.heap, c.pre),
                                  TreesOf(a.st.heap, a.pre), AssumeOf(c),
                                  TreesOf(b.st.heap, b.pre))
                     /\ OnlyUnder(BodyOf(i), TreesOf(c.st.heap, c.pre),
                                  TreesOf(b.st.heap, b.pre), AssumeNot(c),
                                  TreesOf(a.st.heap, a.pre))

\* Lowered: `L and then R` and `L or else R` with a null check among the
\* pre-statements of R, and an if expression whose two branches both have
\* pre-statements, a null check in one of them.
HasNullCheck(x) ==
    \E k \in DOMAIN x.pre : x.st.heap[x.pre[k]].k = "AssumeStmt"
                            /\ x.st.heap[x.pre[k]].purpose.k = "DerefCheck"
C20_Witness ==
    \E i \in DOMAIN progs :
        /\ progs[i].runs = 0
        /\ \/ /\ IsCondAssign(unit[i], {"BinOp"})
              /\ HasNullCheck(RightOf(unit[i]))
           \/ /\ IsCondAssign(unit[i], {"IfExpr"})
              /\ HasNullCheck(ThenExprOf(unit[i]))
              /\ Len(ElseExprOf(unit[i]).pre) > 0

(***************************************************************************)
(* Consumers.  The statement that consumes the result of a lowered        *)
(* expression: the Assign of an assignment, the first Assign of an        *)
(* initialized declaration, the Split of an if statement, the Assume(c)   *)
(* at the head of the body of a while loop, the Assume(not c) after it.   *)
(***************************************************************************)
\* The statements of `list` right before position pos are `pre`.
PreStandsBefore(list, pos, pre) ==
    /\ pos > Len(pre)
    /\ pos <= Len(list)
    /\ TreesOf(heap, SubSeq(list, pos - Len(pre), pos - 1)) = pre

IsSingleAssign(subp) == Len(subp.stmts) = 1 /\ subp.stmts[1].k = "AssignStmt"
AssignedOf(subp) == transform_expr(AfterDecls(subp), subp.stmts[1].expr)

\* C21: the pre-statements of a lowered expression stand immediately
\* before the statement that consumes its result: before the Assign of an
\* assignment, before the Assigns of an initialized declaration, before
\* the Split of an if statement, before the Assume(c) at the head of the
\* body of a while loop, and before the Assume(not c) that follows the
\* while loop.
C21_PreStmtsBeforeConsumer ==
    \A i \in DOMAIN progs :
        progs[i].runs = 0 =>
            /\ IsSingleAssign(unit[i]) =>
                  LET e == AssignedOf(unit[i])
                  IN /\ PreStandsBefore(BodyOf(i), Len(BodyOf(i)),
                                        TreesOf(e.st.heap, e.pre))
                     /\ heap[LastOf(BodyOf(i))].k = "AssignStmt"
                     /\ TreeOf(heap, heap[LastOf(BodyOf(i))].expr) = TreeOf(e.st.heap, e.e)
            /\ \A d \in DOMAIN unit[i].decls :
                  (unit[i].decls[d].k = "ObjectDecl"
                      /\ unit[i].decls[d].default_expr # None) =>
                      LET init == InitializerOf(unit[i], d)
                          seg == SegmentOf(i, d)
                      IN /\ PreStandsBefore(seg, Len(init.pre) + 1,
                                            TreesOf(init.st.heap, init.pre))
                         /\ \A j \in Len(init.pre) + 1 .. Len(seg) :
                               /\ heap[seg[j]].k = "AssignStmt"
                               /\ TreeOf(heap, heap[seg[j]].expr) =
                                      TreeOf(init.st.heap, init.e)
            /\ IsIf(unit[i]) =>
                  LET c == CondOf(unit[i])
                  IN /\ PreStandsBefore(BodyOf(i), Len(BodyOf(i)),
                                        TreesOf(c.st.heap, c.pre))
                     /\ heap[LastOf(BodyOf(i))].k = "SplitStmt"
                     /\ TreeOf(heap, heap[LastOf(BodyOf(i))].branches[1][1]) = AssumeOf(c)
                     /\ TreeOf(heap, heap[LastOf(BodyOf(i))].branches[2][1]) = AssumeNot(c)
            /\ IsLoop(unit[i], "WhileLoopStmt") =>
                  LET c == LoopCondOf(unit[i])
                      loop == heap[BodyOf(i)[1]]
                  IN /\ loop.k = "LoopStmt"
                     /\ PreStandsBefore(loop.stmts, Len(c.pre) + 1,
                                        TreesOf(c.st.heap, c.pre))
                     /\ TreeOf(heap, loop.stmts[Len(c.pre) + 1]) = AssumeOf(c)
                     /\ \E pos \in DOMAIN BodyOf(i) :
                           /\ TreeOf(heap, BodyOf(i)[pos]) = AssumeNot(c)
                           /\ PreStandsBefore(BodyOf(i), pos, TreesOf(c.st.heap, c.pre))

(***************************************************************************)
(* Frame of the normalizer.  `b` is a tree before a run and `a` the tree  *)
(* at the same place after it.                                            *)
(***************************************************************************)
IsUniversal(t) == t.type_hint \in {universal_int, universal_real}

\* An expression of concrete type hint is the same expression after the
\* run, with the same type hint; only its operands may have been rewritten.
RECURSIVE KeptExpr(_, _)
KeptExpr(b, a) ==
    IsUniversal(b) \/
        /\ a.k = b.k
        /\ a.type_hint = b.type_hint
        /\ CASE b.k = "BinExpr" ->
                    a.bin_op = b.bin_op /\ KeptExpr(b.lhs, a.lhs) /\ KeptExpr(b.rhs, a.rhs)
             [] b.k = "UnExpr" -> a.un_op = b.un_op /\ KeptExpr(b.expr, a.expr)
             [] OTHER -> a = b

RECURSIVE KeptStmts(_, _)
KeptStmt(b, a) ==
    /\ a.k = b.k
    /\ CASE b.k \in {"AssignStmt", "AssumeStmt"} -> KeptExpr(b.expr, a.expr)
         [] b.k = "SplitStmt" ->
                /\ Len(a.branches) = Len(b.branches)
                /\ \A j \in DOMAIN b.branches : KeptStmts(b.branches[j], a.branches[j])
         [] b.k = "LoopStmt" -> KeptStmts(b.stmts, a.stmts)
         [] OTHER -> TRUE
KeptStmts(b, a) ==
    /\ Len(a) = Len(b)
    /\ \A j \in DOMAIN b : KeptStmt(b[j], a[j])

\* C22: a run of the normalizer replaces an expression by a literal only
\* if its type hint is universal; an expression of concrete type hint is
\* not replaced and keeps its type hint, only its operands may be
\* rewritten.
C22_ConcreteExprsKept ==
    \A i \in DOMAIN progs :
        (progs[i].runs = 1 /\ fault = "none") =>
            KeptStmts(progs[i].before, TreesOf(heap, progs[i].stmts))

(***************************************************************************)
(* Leaving a while loop.  A Goto continues at the statement after its     *)
(* Label, in the statement list that holds the Label.                     *)
(***************************************************************************)
\* The statement lists of a program: its own, the branches of its Splits
\* and the bodies of its Loops, at any depth.
RECURSIVE AllLists(_, _)
AllLists(h, stmts) ==
    {stmts} \cup UNION {
        CASE h[stmts[j]].k = "SplitStmt" ->
                UNION {AllLists(h, h[stmts[j]].branches[b]) :
                          b \in DOMAIN h[stmts[j]].branches}
          [] h[stmts[j]].k = "LoopStmt" -> AllLists(h, h[stmts[j]].stmts)
          [] OTHER -> {}
        : j \in DOMAIN stmts}

\* The Gotos of the statement list, at any depth, to Label statement l.
GotosTo(stmts, l) ==
    LET all == AllStmts(heap, stmts) IN
    {all[j] : j \in {g \in DOMAIN all : heap[all[g]].k = "GotoStmt"
                                          /\ heap[all[g]].label = l}}

\* Statement n is Assume(not c), c the condition that the Loop statement
\* `loop` assumes in its body.
IsAssumeNotCondOf(n, loop) ==
    /\ heap[n].k = "AssumeStmt"
    /\ heap[heap[n].expr].k = "UnExpr"
    /\ heap[heap[n].expr].un_op = "NOT"
    /\ \E k \in DOMAIN heap[loop].stmts :
          /\ heap[heap[loop].stmts[k]].k = "AssumeStmt"
          /\ heap[heap[loop].stmts[k]].expr = heap[heap[n].expr].expr

\* C23: the exit label of a while loop stands right after the
\* Assume(not cond) that follows the Loop statement; every Goto to it
\* stands inside that Loop, so a path through the Goto continues after the
\* Assume(not cond) and does not pass through it, while the path that
\* falls out of the Loop meets the Assume(not cond) first.
C23_ExitSkipsAssumeNotCond ==
    \A i \in DOMAIN progs :
        progs[i].runs = 0 =>
            /\ \A list \in AllLists(heap, progs[i].stmts) :
                  \A q \in DOMAIN list :
                      IsExitLabel(list[q], "exit_while_loop") =>
                          /\ q >= 3
                          /\ heap[list[q - 2]].k = "LoopStmt"
                          /\ IsAssumeNotCondOf(list[q - 1], list[q - 2])
                          /\ GotosTo(progs[i].stmts, list[q]) =
                                 GotosTo(heap[list[q - 2]].stmts, list[q])
                          /\ Count(AllStmts(heap, progs[i].stmts), list[q]) = 1
            /\ (IsLoop(unit[i], "WhileLoopStmt")
                  \/ (IsLoop(unit[i], "NamedStmt")
                        /\ unit[i].stmts[1].stmt.k = "WhileLoopStmt")) =>
                  /\ Len(BodyOf(i)) = 3
                  /\ IsExitLabel(BodyOf(i)[3], "exit_while_loop")

\* A lowered while loop with two exits that leave it, one of them from a
\* loop inside it, and with an exit that leaves the inner loop only.
C23_Witness ==
    \E i \in DOMAIN progs :
        /\ progs[i].runs = 0
        /\ IsLoop(unit[i], "NamedStmt")
        /\ Len(BodyOf(i)) = 3
        /\ Cardinality(GotosTo(progs[i].stmts, BodyOf(i)[3])) = 2
        /\ \E list \in AllLists(heap, heap[BodyOf(i)[1]].stmts) :
              \E q \in DOMAIN list :
                  /\ IsExitLabel(list[q], "exit_loop")
                  /\ GotosTo(progs[i].stmts, list[q]) # {}

(***************************************************************************)
(* Nothing dropped.  The trace of a statement list: its assignments with  *)
(* the assigned name, its exits and its gotos, in order, at any depth.    *)
(***************************************************************************)
RECURSIVE AltStmts(_)
AltStmts(alts) == IF alts = <<>> THEN <<>> ELSE Head(alts).stmts \o AltStmts(Tail(alts))

RECURSIVE SrcTrace(_)
SrcTrace(stmts) ==
    IF stmts = <<>> THEN <<>>
    ELSE LET s == Head(stmts)
             here ==
                CASE s.k = "AssignStmt" -> << <<"assign", str_of(s.dest.text)>> >>
                  [] s.k = "ExitStmt" -> << <<"exit">> >>
                  [] s.k = "GotoStmt" -> << <<"goto">> >>
                  [] s.k = "IfStmt" ->
                        SrcTrace(s.then_stmts \o AltStmts(s.alternatives) \o s.else_stmts)
                  [] s.k = "CaseStmt" -> SrcTrace(AltStmts(s.alts))
                  [] s.k \in {"LoopStmt", "WhileLoopStmt", "ForLoopStmt",
                              "ExceptionHandler"} -> SrcTrace(s.stmts)
                  [] s.k = "NamedStmt" -> SrcTrace(<<s.stmt>>)
                  [] OTHER -> <<>>
         IN here \o SrcTrace(Tail(stmts))

\* Of the IR: the Assigns to variables of the source, and the Gotos.
RECURSIVE IrTrace(_)
IrTrace(all) ==
    IF all = <<>> THEN <<>>
    ELSE LET n == heap[Head(all)]
             here ==
                CASE n.k = "AssignStmt" /\ heap[heap[n.id].var].purpose = NoPurpose ->
                        << <<"assign", heap[heap[n.id].var].name>> >>
                  [] n.k = "GotoStmt" ->
                        IF heap[n.label].name[1] = "L" THEN << <<"goto">> >>
                        ELSE << <<"exit">> >>
                  [] OTHER -> <<>>
         IN here \o IrTrace(Tail(all))

\* C24: a lowered program represents every statement of the body of its
\* subprogram: its assignments, exits and gotos are those of the source,
\* in source order, the ones in elsif parts, in for loops and in exception
\* handlers included.
C24_NoStatementDropped ==
    \A i \in DOMAIN progs :
        progs[i].runs = 0 =>
            IrTrace(AllStmts(heap, BodyOf(i))) = SrcTrace(unit[i].stmts)

(***************************************************************************)
(* Sharing.  A copy of the program in which the expression of every       *)
(* Assign and Assume is a tree of nodes of its own.                       *)
(***************************************************************************)
RECURSIVE CopyExpr(_, _)
CopyExpr(h, e) ==
    CASE h[e].k = "BinExpr" ->
            LET l == CopyExpr(h, h[e].lhs)
                r == CopyExpr(l.heap, h[e].rhs)
            IN [heap |-> Append(r.heap, [h[e] EXCEPT !.lhs = l.e, !.rhs = r.e]),
                e |-> Len(r.heap) + 1]
      [] h[e].k = "UnExpr" ->
            LET x == CopyExpr(h, h[e].expr)
            IN [heap |-> Append(x.heap, [h[e] EXCEPT !.expr = x.e]), e |-> Len(x.heap) + 1]
      [] OTHER -> [heap |-> Append(h, h[e]), e |-> Len(h) + 1]

RECURSIVE Unshared(_, _)
Unshared(h, all) ==
    IF all = <<>> THEN h
    ELSE IF h[Head(all)].k \in {"AssignStmt", "AssumeStmt"}
         THEN LET c == CopyExpr(h, h[Head(all)].expr)
              IN Unshared([c.heap EXCEPT ![Head(all)].expr = c.e], Tail(all))
         ELSE Unshared(h, Tail(all))

\* The normalizer run on program i as it is, and on its copy.
RunShared(i) ==
    converter_visit_all(
        [heap |-> heap, es |-> [cache |-> cache, calls |-> calls, oids |-> oids],
         exc |-> "none"], progs[i].stmts)
RunUnshared(i) ==
    converter_visit_all(
        [heap |-> Unshared(heap, AllStmts(heap, progs[i].stmts)),
         es |-> [cache |-> cache, calls |-> calls, oids |-> oids],
         exc |-> "none"], progs[i].stmts)

\* The expression nodes that more than one Assign or Assume of the list
\* reaches.
SharedExprs(h, stmts) ==
    LET all == AllStmts(h, stmts)
        users(e) == {j \in DOMAIN all : h[all[j]].k \in {"AssignStmt", "AssumeStmt"}
                                          /\ e \in SubExprs(h, h[all[j]].expr)}
    IN {e \in ExprsOf(h, stmts) : Cardinality(users(e)) > 1}

\* C25: for a lowered program the normalizer, run in place on the program
\* with its shared expression nodes, ends as it ends on the copy without
\* sharing, and leaves structurally the same tree.
C25_SharingInsensitive ==
    \A i \in DOMAIN progs :
        progs[i].runs = 0 =>
            /\ RunShared(i).exc = RunUnshared(i).exc
            /\ RunShared(i).exc = "none" =>
                  TreesOf(RunShared(i).heap, progs[i].stmts) =
                      TreesOf(RunUnshared(i).heap, progs[i].stmts)

\* A lowered program with an expression node that two statements share
\* and that the normalizer rewrites in place.
C25_Witness ==
    \E i \in DOMAIN progs :
        /\ progs[i].runs = 0
        /\ RunShared(i).exc = "none"
        /\ \E e \in SharedExprs(heap, progs[i].stmts) : RunShared(i).heap[e] # heap[e]

(***************************************************************************)
(* The memo cache.  A fresh evaluation starts with an empty cache; two    *)
(* Range objects are the same value if their bounds are.                  *)
(***************************************************************************)
ValueOf(v) == IF v.t = "Range" THEN [v EXCEPT !.oid = 0] ELSE v
FreshEval(n) == eval(heap, [cache |-> <<>>, calls |-> 0, oids |-> oids], n)

\* C26: in every state of an extraction, the value that the evaluator's
\* cache holds for a node is the value that an evaluation of the node as
\* it is now, with an empty cache, returns.
C26_CacheCoherent ==
    \A n \in DOMAIN cache :
        /\ FreshEval(n).exc = "none"
        /\ ValueOf(FreshEval(n).val) = ValueOf(cache[n])

\* The normalizer has rewritten a returned program, and the cache holds
\* the value of an operator node evaluated for it.
C26_Witness ==
    /\ pc = "returned"
    /\ \E i \in DOMAIN progs :
          /\ progs[i].runs >= 1
          /\ progs[i].before # TreesOf(heap, progs[i].stmts)
    /\ \E n \in DOMAIN cache : heap[n].k \in {"BinExpr", "UnExpr"}

====
